---------------------------- MODULE Spec2Model ----------------------------
(***************************************************************************)
(* A model of src/python/handlebar.py: the tokeniser, the recursive-descent *)
(* parser with its whitespace pass, the context stack with its lookup      *)
(* cache, the render state and the Render method of every node.            *)
(*                                                                         *)
(* Python strings are sequences of one-character strings.  Python values   *)
(* are records tagged by their type in field t.  An exception is a record  *)
(* whose field exc names the Python exception class.                       *)
(***************************************************************************)
EXTENDS Integers, Sequences, FiniteSets, TLC

(***************************************************************************)
(* Bounds of the explored inputs.                                          *)
(***************************************************************************)
MaxStrLen == 2
MaxItems == 2
MaxIdLen == 2
MaxDepth == 2
MaxContexts == 3
\* the depth of nested Render calls the interpreter allows
MaxRecursion == 20

(***************************************************************************)
(* String helpers (Python str methods used by the code).                   *)
(***************************************************************************)
RECURSIVE Concat(_)
Concat(ss) == IF ss = <<>> THEN <<>> ELSE Head(ss) \o Concat(Tail(ss))

startswith(s, p) == Len(s) >= Len(p) /\ SubSeq(s, 1, Len(p)) = p

endswith(s, p) == Len(s) >= Len(p) /\ SubSeq(s, Len(s) - Len(p) + 1, Len(s)) = p

\* str.replace for a single-character pattern
RECURSIVE replace(_, _, _)
replace(s, c, r) ==
  IF s = <<>> THEN <<>>
  ELSE (IF Head(s) = c THEN r ELSE <<Head(s)>>) \o replace(Tail(s), c, r)

\* str.split('.')
RECURSIVE SplitAcc(_, _, _)
SplitAcc(s, sep, cur) ==
  IF s = <<>> THEN <<cur>>
  ELSE IF Head(s) = sep THEN <<cur>> \o SplitAcc(Tail(s), sep, <<>>)
  ELSE SplitAcc(Tail(s), sep, Append(cur, Head(s)))

split(s, sep) == SplitAcc(s, sep, <<>>)

\* ' ' * indentation
RECURSIVE Spaces(_)
Spaces(n) == IF n <= 0 THEN <<>> ELSE <<" ">> \o Spaces(n - 1)

Digit(d) == <<SubSeq(<<"0", "1", "2", "3", "4", "5", "6", "7", "8", "9">>, d + 1, d + 1)[1]>>

RECURSIVE DecimalDigits(_)
DecimalDigits(n) == IF n < 10 THEN Digit(n) ELSE DecimalDigits(n \div 10) \o Digit(n % 10)

\* str(n) for an int
IntStr(n) == IF n < 0 THEN <<"-">> \o DecimalDigits(0 - n) ELSE DecimalDigits(n)

(***************************************************************************)
(* Python values.                                                          *)
(***************************************************************************)
None == [t |-> "None"]
PyStr(s) == [t |-> "str", s |-> s]
PyInt(n) == [t |-> "int", n |-> n]
PyBool(b) == [t |-> "bool", b |-> b]
PyList(items) == [t |-> "list", items |-> items]
\* a dict: m is a function from keys to values
PyDict(m) == [t |-> "dict", m |-> m]
\* an object whose only capability is get(key), returning v for every key
CustomContext(v) == [t |-> "CustomContext", v |-> v]

\* hasattr(value, 'get')
hasattr_get(value) == value.t \in {"dict", "CustomContext"}

\* value.get(key), for a value that has get
get(value, key) ==
  IF value.t = "dict"
  THEN (IF key \in DOMAIN value.m THEN value.m[key] ELSE None)
  ELSE value.v

\* isinstance(value, basestring)
IsBasestring(value) == value.t = "str"

(***************************************************************************)
(* Exceptions.                                                             *)
(***************************************************************************)
NoExc == [exc |-> "", msg |-> <<>>, line |-> 0]

\* ParseException(error, line): the message is '%s (line %s)'
ParseException(error, line) == [exc |-> "ParseException", msg |-> error, line |-> line]

\* ParseException(error): the constructor takes two arguments, so a call with
\* one raises TypeError before any ParseException exists
ParseException1(error) == [exc |-> "TypeError", msg |-> <<"__init__() takes exactly 3 arguments (2 given)">>, line |-> 0]

PyRaise(kind, what) == [exc |-> kind, msg |-> <<what>>, line |-> 0]

(***************************************************************************)
(* Tokens.                                                                 *)
(***************************************************************************)
\* in order of definition, which is the order tokens are tried in
TokenValues ==
  << [name |-> "OPEN_START_SECTION",          text |-> <<"{", "{", "#">>, clazz |-> "_SectionNode"],
     [name |-> "OPEN_START_VERTED_SECTION",   text |-> <<"{", "{", "?">>, clazz |-> "_VertedSectionNode"],
     [name |-> "OPEN_START_INVERTED_SECTION", text |-> <<"{", "{", "^">>, clazz |-> "_InvertedSectionNode"],
     [name |-> "OPEN_START_JSON",             text |-> <<"{", "{", "*">>, clazz |-> "_JsonNode"],
     [name |-> "OPEN_START_PARTIAL",          text |-> <<"{", "{", "+">>, clazz |-> "_PartialNode"],
     [name |-> "OPEN_ELSE",                   text |-> <<"{", "{", ":">>, clazz |-> "None"],
     [name |-> "OPEN_END_SECTION",            text |-> <<"{", "{", "/">>, clazz |-> "None"],
     [name |-> "OPEN_UNESCAPED_VARIABLE",     text |-> <<"{", "{", "{">>, clazz |-> "_UnescapedVariableNode"],
     [name |-> "CLOSE_MUSTACHE3",             text |-> <<"}", "}", "}">>, clazz |-> "None"],
     [name |-> "OPEN_COMMENT",                text |-> <<"{", "{", "-">>, clazz |-> "_CommentNode"],
     [name |-> "CLOSE_COMMENT",               text |-> <<"-", "}", "}">>, clazz |-> "None"],
     [name |-> "OPEN_VARIABLE",               text |-> <<"{", "{">>,      clazz |-> "_EscapedVariableNode"],
     [name |-> "CLOSE_MUSTACHE",              text |-> <<"}", "}">>,      clazz |-> "None"],
     [name |-> "CHARACTER",                   text |-> <<".">>,           clazz |-> "None"] >>

\* the _Token.Data whose name is n
_Token(n) == TokenValues[CHOOSE i \in 1..Len(TokenValues) : TokenValues[i].name = n]

\* Data.ElseNodeClass
ElseNodeClass(clazz) ==
  IF clazz = "_VertedSectionNode" THEN "_InvertedSectionNode"
  ELSE IF clazz = "_InvertedSectionNode" THEN "_VertedSectionNode"
  ELSE "ValueError"

(***************************************************************************)
(* _TokenStream.  next_token is a token name, "None" at the end of the     *)
(* input; next_contents is then the empty sequence and stands for None.    *)
(***************************************************************************)
\* a local variable of the source bound to a value: the rest of the method,
\* F, applied to it; the value is computed once, when it is assigned
With(value, F(_)) == CHOOSE r \in {F(x) : x \in {value}} : TRUE

HasNext(tokens) == tokens.next_token # "None"

Advance(tokens) ==
  LET newline == tokens.next_contents = <<"\n">>
      matching == {i \in 1..Len(TokenValues) : startswith(tokens.remainder, TokenValues[i].text)}
  IN With(IF matching = {} THEN _Token("CHARACTER")
          ELSE TokenValues[CHOOSE i \in matching : \A j \in matching : i <= j],
          LAMBDA token :
     [remainder |-> SubSeq(tokens.remainder, Len(token.text) + 1, Len(tokens.remainder)),
      next_token |-> IF tokens.remainder = <<>> THEN "None" ELSE token.name,
      next_contents |-> IF tokens.remainder = <<>> THEN <<>>
                        ELSE SubSeq(tokens.remainder, 1, Len(token.text)),
      next_line |-> IF newline THEN tokens.next_line + 1 ELSE tokens.next_line,
      next_column |-> IF newline THEN 0
                      ELSE IF tokens.next_token # "None"
                           THEN tokens.next_column + Len(_Token(tokens.next_token).text)
                           ELSE tokens.next_column])

_TokenStream(string) ==
  Advance([remainder |-> string, next_token |-> "None", next_contents |-> <<>>,
           next_line |-> 1, next_column |-> 0])

\* a parser result: the token stream after the call, the value returned and
\* the exception raised, if any
Ok(tokens, val) == [tokens |-> tokens, val |-> val, err |-> NoExc]
Err(e) == [tokens |-> <<>>, val |-> <<>>, err |-> e]
Failed(r) == r.err.exc # ""

AdvanceOver(tokens, token) ==
  IF tokens.next_token # token
  THEN (IF tokens.next_token = "None"
        THEN Err(PyRaise("AttributeError", "'NoneType' object has no attribute 'name'"))
        ELSE Err(ParseException(<<"Expecting token", token, "but got", tokens.next_token>>,
                                tokens.next_line)))
  ELSE Ok(Advance(tokens), <<>>)

RECURSIVE AdvanceOverNextStringFrom(_, _, _)
AdvanceOverNextStringFrom(tokens, excluded, buf) ==
  IF tokens.next_token = "CHARACTER" /\ tokens.next_contents[1] \notin excluded
  THEN With(Advance(tokens), LAMBDA advanced :
       With(buf \o tokens.next_contents, LAMBDA buf1 :
         AdvanceOverNextStringFrom(advanced, excluded, buf1)))
  ELSE Ok(tokens, buf)

AdvanceOverNextString(tokens, excluded) == AdvanceOverNextStringFrom(tokens, excluded, <<>>)

AdvanceToNextWhitespace(tokens) == AdvanceOverNextString(tokens, {" ", "\n", "\r", "\t"})

RECURSIVE SkipWhitespace(_)
SkipWhitespace(tokens) ==
  IF tokens.next_token = "None"
  THEN Err(PyRaise("TypeError", "object of type 'NoneType' has no len()"))
  ELSE IF Len(tokens.next_contents) = 1 /\ tokens.next_contents[1] \in {" ", "\n", "\r", "\t"}
       THEN With(Advance(tokens), LAMBDA advanced : SkipWhitespace(advanced))
       ELSE Ok(tokens, <<>>)

(***************************************************************************)
(* _Identifier.                                                            *)
(***************************************************************************)
Letters ==
  {"a", "b", "c", "d", "e", "f", "g", "h", "i", "j", "k", "l", "m", "n", "o", "p", "q",
   "r", "s", "t", "u", "v", "w", "x", "y", "z",
   "A", "B", "C", "D", "E", "F", "G", "H", "I", "J", "K", "L", "M", "N", "O", "P", "Q",
   "R", "S", "T", "U", "V", "W", "X", "Y", "Z"}

DigitChars == {"0", "1", "2", "3", "4", "5", "6", "7", "8", "9"}

\* re.match('^[a-zA-Z0-9_\\-/]+$', part): $ also matches before a final newline
PartMatches(part) ==
  LET body == IF Len(part) > 0 /\ part[Len(part)] = "\n"
              THEN SubSeq(part, 1, Len(part) - 1) ELSE part
  IN Len(body) > 0 /\ \A i \in 1..Len(body) : body[i] \in Letters \cup DigitChars \cup {"_", "-", "/"}

\* the identifier object, or the exception its constructor raises
_Identifier(name, line, column) ==
  LET parts == split(name, ".")
      id == [name |-> name, line |-> line, column |-> column]
  IN IF name = <<>>
     THEN [val |-> id, err |-> ParseException1(<<"Empty identifier", name>>)]
     ELSE IF \E i \in 1..Len(parts) : parts[i] # <<"@">> /\ ~PartMatches(parts[i])
          THEN [val |-> id, err |-> ParseException1(<<"Invalid identifier", name>>)]
          ELSE [val |-> id, err |-> NoExc]

(***************************************************************************)
(* AST nodes and their whitespace methods.                                 *)
(***************************************************************************)
LeafKinds == {"_EscapedVariableNode", "_UnescapedVariableNode", "_CommentNode",
              "_JsonNode", "_PartialNode"}

_StringNode(string, start_line, end_line) ==
  [k |-> "_StringNode", string |-> string, start_line |-> start_line, end_line |-> end_line]

\* a variable, unescaped variable or JSON node
_LeafNode(clazz, id, line) ==
  [k |-> clazz, id |-> id, start_line |-> line, end_line |-> line]

_CommentNode(start_line, end_line) ==
  [k |-> "_CommentNode", start_line |-> start_line, end_line |-> end_line]

\* args and local_context_id are <<>> for None, else a one-element sequence
_PartialNode(id, line) ==
  [k |-> "_PartialNode", id |-> id, args |-> <<>>, local_context_id |-> <<>>,
   start_line |-> line, end_line |-> line]

AddArgument(node, key, id) ==
  [node EXCEPT !.args =
     IF node.args = <<>> THEN << (key :> id) >>
     ELSE << [x \in DOMAIN node.args[1] \cup {key} |->
                IF x = key THEN id ELSE node.args[1][x]] >>]

SetLocalContext(node, id) == [node EXCEPT !.local_context_id = <<id>>]

\* a section, verted section or inverted section node
_DecoratorNode(clazz, id, content) == [k |-> clazz, id |-> id, content |-> content]

_InlineNode(content) == [k |-> "_InlineNode", content |-> content]

_IndentedNode(content, indentation) ==
  [k |-> "_IndentedNode", content |-> content, indent_str |-> Spaces(indentation)]

_NodeCollection(nodes) == [k |-> "_NodeCollection", nodes |-> nodes]

_LastIndexOfSpaces(string) ==
  IF \E i \in 1..Len(string) : string[i] # " "
  THEN CHOOSE i \in 1..Len(string) :
         string[i] # " " /\ \A j \in (i + 1)..Len(string) : string[j] = " "
  ELSE 0

RECURSIVE StartsWithNewLine(_)
StartsWithNewLine(node) ==
  IF node.k = "_StringNode" THEN startswith(node.string, <<"\n">>)
  ELSE IF node.k \in LeafKinds THEN FALSE
  ELSE IF node.k = "_NodeCollection" THEN StartsWithNewLine(node.nodes[1])
  ELSE StartsWithNewLine(node.content)

RECURSIVE TrimStartingNewLine(_)
TrimStartingNewLine(node) ==
  IF node.k = "_StringNode"
  THEN (IF startswith(node.string, <<"\n">>)
        THEN [node EXCEPT !.string = Tail(node.string)] ELSE node)
  ELSE IF node.k \in LeafKinds THEN node
  ELSE IF node.k = "_NodeCollection"
       THEN [node EXCEPT !.nodes[1] = TrimStartingNewLine(node.nodes[1])]
  ELSE [node EXCEPT !.content = TrimStartingNewLine(node.content)]

\* the node after TrimEndingSpaces
RECURSIVE TrimEndingSpaces(_)
TrimEndingSpaces(node) ==
  IF node.k = "_StringNode"
  THEN [node EXCEPT !.string = SubSeq(node.string, 1, _LastIndexOfSpaces(node.string))]
  ELSE IF node.k \in LeafKinds THEN node
  ELSE IF node.k = "_NodeCollection"
       THEN [node EXCEPT !.nodes[Len(node.nodes)] = TrimEndingSpaces(node.nodes[Len(node.nodes)])]
  ELSE [node EXCEPT !.content = TrimEndingSpaces(node.content)]

\* the number TrimEndingSpaces returns
RECURSIVE TrimEndingSpacesCount(_)
TrimEndingSpacesCount(node) ==
  IF node.k = "_StringNode" THEN Len(node.string) - _LastIndexOfSpaces(node.string)
  ELSE IF node.k \in LeafKinds THEN 0
  ELSE IF node.k = "_NodeCollection" THEN TrimEndingSpacesCount(node.nodes[Len(node.nodes)])
  ELSE TrimEndingSpacesCount(node.content)

RECURSIVE EndsWithEmptyLine(_)
EndsWithEmptyLine(node) ==
  IF node.k = "_StringNode"
  THEN LET index == _LastIndexOfSpaces(node.string)
       IN index = 0 \/ node.string[index] = "\n"
  ELSE IF node.k \in LeafKinds THEN FALSE
  ELSE IF node.k = "_NodeCollection" THEN EndsWithEmptyLine(node.nodes[Len(node.nodes)])
  ELSE EndsWithEmptyLine(node.content)

RECURSIVE GetStartLine(_)
GetStartLine(node) ==
  IF node.k = "_StringNode" \/ node.k \in LeafKinds THEN node.start_line
  ELSE IF node.k = "_NodeCollection" THEN GetStartLine(node.nodes[1])
  ELSE GetStartLine(node.content)

RECURSIVE GetEndLine(_)
GetEndLine(node) ==
  IF node.k = "_StringNode" \/ node.k \in LeafKinds THEN node.end_line
  ELSE IF node.k = "_NodeCollection" THEN GetEndLine(node.nodes[Len(node.nodes)])
  ELSE GetEndLine(node.content)

\* the constructor trims its content
_BlockNode(content) ==
  [k |-> "_BlockNode", content |-> TrimEndingSpaces(TrimStartingNewLine(content))]

(***************************************************************************)
(* Handlebar: the parser.  An optional node (None or a node) is a sequence *)
(* of zero or one node.                                                    *)
(***************************************************************************)
RECURSIVE _AdvanceOverCommentFrom(_, _)
_AdvanceOverCommentFrom(tokens, depth) ==
  IF HasNext(tokens) /\ depth > 0
  THEN With(Advance(tokens), LAMBDA advanced :
       With(IF tokens.next_token = "OPEN_COMMENT" THEN depth + 1
            ELSE IF tokens.next_token = "CLOSE_COMMENT" THEN depth - 1
            ELSE depth, LAMBDA depth1 :
         _AdvanceOverCommentFrom(advanced, depth1)))
  ELSE Ok(tokens, <<>>)

_AdvanceOverComment(tokens) ==
  With(AdvanceOver(tokens, "OPEN_COMMENT"), LAMBDA a :
    IF Failed(a) THEN a ELSE _AdvanceOverCommentFrom(a.tokens, 1))

_OpenSectionOrTag(tokens) ==
  With(Advance(tokens), LAMBDA t1 :
  With(AdvanceOverNextString(t1, {}), LAMBDA s :
  With(_Identifier(s.val, s.tokens.next_line, t1.next_column + 1), LAMBDA id :
    IF Failed(id) THEN Err(id.err)
    ELSE With(AdvanceOver(s.tokens, IF tokens.next_token = "OPEN_UNESCAPED_VARIABLE"
                                    THEN "CLOSE_MUSTACHE3" ELSE "CLOSE_MUSTACHE"),
              LAMBDA c : IF Failed(c) THEN c ELSE Ok(c.tokens, id.val)))))

\* '...%s...' % (id_, next_string) calls _Identifier.__str__, which raises
\* ValueError before ParseException is constructed
_CloseSection(tokens, id) ==
  With(AdvanceOver(tokens, "OPEN_END_SECTION"), LAMBDA a :
    IF Failed(a) THEN a
    ELSE With(AdvanceOverNextString(a.tokens, {}), LAMBDA s :
           IF s.val # <<>> /\ s.val # id.name
           THEN Err(PyRaise("ValueError", "_Identifier.__str__"))
           ELSE AdvanceOver(s.tokens, "CLOSE_MUSTACHE")))

_OpenElse(tokens, id) ==
  With(AdvanceOver(tokens, "OPEN_ELSE"), LAMBDA a :
    IF Failed(a) THEN a
    ELSE With(AdvanceOverNextString(a.tokens, {}), LAMBDA s :
           IF s.val # <<>> /\ s.val # id.name
           THEN Err(PyRaise("ValueError", "_Identifier.__str__"))
           ELSE AdvanceOver(s.tokens, "CLOSE_MUSTACHE")))

\* the loop reading the arguments of a partial tag
RECURSIVE ParsePartialArgs(_, _)
ParsePartialArgs(tokens, partial_node) ==
  IF tokens.next_token # "CHARACTER" THEN Ok(tokens, partial_node)
  ELSE With(SkipWhitespace(tokens), LAMBDA w :
       IF Failed(w) THEN w
       ELSE
       With(AdvanceOverNextString(w.tokens, {":"}), LAMBDA key :
       With(Advance(key.tokens), LAMBDA t1 :
       With(AdvanceToNextWhitespace(t1), LAMBDA s :
       With(_Identifier(s.val, s.tokens.next_line, t1.next_column + 1), LAMBDA id :
         IF Failed(id) THEN Err(id.err)
         ELSE ParsePartialArgs(s.tokens,
                IF key.val = <<"@">> THEN SetLocalContext(partial_node, id.val)
                ELSE AddArgument(partial_node, key.val, id.val)))))))

\* the OPEN_START_PARTIAL branch of _ParseSection
ParsePartial(tokens) ==
  With(Advance(tokens), LAMBDA t1 :
  With(AdvanceToNextWhitespace(t1), LAMBDA s :
  With(_Identifier(s.val, s.tokens.next_line, t1.next_column + 1), LAMBDA id :
    IF Failed(id) THEN Err(id.err)
    ELSE With(ParsePartialArgs(s.tokens, _PartialNode(id.val, s.tokens.next_line)),
              LAMBDA args :
         IF Failed(args) THEN args
         ELSE With(AdvanceOver(args.tokens, "CLOSE_MUSTACHE"), LAMBDA c :
                IF Failed(c) THEN c ELSE Ok(c.tokens, args.val))))))

\* the loop over the nodes of a section that wraps every node that is not a
\* string as a block, an indented or an inline node
RECURSIVE WhitespacePass(_, _)
WhitespacePass(nodes, i) ==
  IF i > Len(nodes) THEN nodes
  ELSE IF nodes[i].k = "_StringNode" THEN WhitespacePass(nodes, i + 1)
  ELSE
    LET node == nodes[i]
        has_previous == i > 1
        has_next == i < Len(nodes)
        trimmed ==
          [j \in 1..Len(nodes) |->
             IF j = i - 1 THEN TrimEndingSpaces(nodes[j])
             ELSE IF j = i + 1 THEN TrimStartingNewLine(nodes[j])
             ELSE nodes[j]]
    IN IF GetStartLine(node) # GetEndLine(node)
       THEN WhitespacePass([trimmed EXCEPT ![i] = _BlockNode(node)], i + 1)
       ELSE IF /\ node.k \in LeafKinds
               /\ (~has_previous \/ EndsWithEmptyLine(nodes[i - 1]))
               /\ (~has_next \/ StartsWithNewLine(nodes[i + 1]))
            THEN WhitespacePass(
                   [trimmed EXCEPT ![i] =
                      _IndentedNode(node, IF has_previous
                                          THEN TrimEndingSpacesCount(nodes[i - 1]) ELSE 0)],
                   i + 1)
            ELSE WhitespacePass([nodes EXCEPT ![i] = _InlineNode(node)], i + 1)

\* the value _ParseSection returns for the wrapped nodes
Collapse(nodes) ==
  IF Len(nodes) = 0 THEN <<>>
  ELSE IF Len(nodes) = 1 THEN <<nodes[1]>>
  ELSE <<_NodeCollection(nodes)>>

RECURSIVE _ParseSection(_)

\* the node a section of the given class adds to nodes: none when the parsed
\* section is None
Decorated(clazz, id, section) ==
  IF section # <<>> THEN <<_DecoratorNode(clazz, id, section[1])>> ELSE <<>>

\* the else part of a verted or inverted section, None when the next token
\* does not open one
ParseElse(tokens, id) ==
  IF tokens.next_token = "OPEN_ELSE"
  THEN With(_OpenElse(tokens, id), LAMBDA e :
         IF Failed(e) THEN e ELSE _ParseSection(e.tokens))
  ELSE Ok(tokens, <<>>)

RECURSIVE ParseLoop(_, _)
\* the while loop of _ParseSection
ParseLoop(tokens, nodes) ==
  IF ~HasNext(tokens) THEN Ok(tokens, nodes)
  ELSE
    LET token == tokens.next_token IN
    CASE token = "CHARACTER" ->
           With(AdvanceOverNextString(tokens, {}), LAMBDA s :
             ParseLoop(s.tokens,
               Append(nodes, _StringNode(s.val, tokens.next_line, s.tokens.next_line))))
      [] token \in {"OPEN_VARIABLE", "OPEN_UNESCAPED_VARIABLE", "OPEN_START_JSON"} ->
           With(_OpenSectionOrTag(tokens), LAMBDA id :
             IF Failed(id) THEN id
             ELSE ParseLoop(id.tokens,
                    Append(nodes, _LeafNode(_Token(token).clazz, id.val, id.tokens.next_line))))
      [] token = "OPEN_START_PARTIAL" ->
           With(ParsePartial(tokens), LAMBDA p :
             IF Failed(p) THEN p ELSE ParseLoop(p.tokens, Append(nodes, p.val)))
      [] token = "OPEN_START_SECTION" ->
           With(_OpenSectionOrTag(tokens), LAMBDA id :
             IF Failed(id) THEN id
             ELSE
             With(_ParseSection(id.tokens), LAMBDA section :
               IF Failed(section) THEN section
               ELSE
               With(_CloseSection(section.tokens, id.val), LAMBDA c :
                 IF Failed(c) THEN c
                 ELSE ParseLoop(c.tokens,
                        nodes \o Decorated("_SectionNode", id.val, section.val)))))
      [] token \in {"OPEN_START_VERTED_SECTION", "OPEN_START_INVERTED_SECTION"} ->
           With(_OpenSectionOrTag(tokens), LAMBDA id :
             IF Failed(id) THEN id
             ELSE
             With(_ParseSection(id.tokens), LAMBDA section :
               IF Failed(section) THEN section
               ELSE
               With(ParseElse(section.tokens, id.val), LAMBDA else_section :
                 IF Failed(else_section) THEN else_section
                 ELSE
                 With(_CloseSection(else_section.tokens, id.val), LAMBDA c :
                   IF Failed(c) THEN c
                   ELSE ParseLoop(c.tokens,
                          nodes \o Decorated(_Token(token).clazz, id.val, section.val)
                                \o Decorated(ElseNodeClass(_Token(token).clazz), id.val,
                                             else_section.val))))))
      [] token = "OPEN_COMMENT" ->
           With(_AdvanceOverComment(tokens), LAMBDA c :
             IF Failed(c) THEN c
             ELSE ParseLoop(c.tokens,
                    Append(nodes, _CommentNode(tokens.next_line, c.tokens.next_line))))
      [] token \in {"OPEN_END_SECTION", "OPEN_ELSE"} -> Ok(tokens, nodes)
      [] OTHER -> Err(ParseException(<<"Orphaned", token>>, tokens.next_line))

_ParseSection(tokens) ==
  With(ParseLoop(tokens, <<>>), LAMBDA r :
    IF Failed(r) THEN r ELSE Ok(r.tokens, Collapse(WhitespacePass(r.val, 1))))

\* Handlebar(template, name): the template object, or the exception raised
Handlebar(template, name) ==
  With(_ParseSection(_TokenStream(template)), LAMBDA top :
    IF Failed(top) THEN [t |-> "exception", err |-> top.err]
    ELSE IF top.val = <<>>
         THEN [t |-> "exception",
               err |-> ParseException(<<"Template is empty">>, top.tokens.next_line)]
    ELSE IF HasNext(top.tokens)
         THEN [t |-> "exception",
               err |-> ParseException(<<"There are still tokens remaining">>,
                                      top.tokens.next_line)]
    ELSE [t |-> "Handlebar", source |-> template, name |-> name, top_node |-> top.val[1]])

(***************************************************************************)
(* Conversions of values to text: str(), repr() and json.dumps().          *)
(***************************************************************************)
\* the elements of a finite set of strings in some fixed order (the order in
\* which a dict is iterated is the interpreter's)
RECURSIVE SetToSeq(_)
SetToSeq(S) ==
  IF S = {} THEN <<>> ELSE LET x == CHOOSE x \in S : TRUE IN <<x>> \o SetToSeq(S \ {x})

RECURSIVE Join(_, _)
Join(ss, sep) ==
  IF ss = <<>> THEN <<>>
  ELSE IF Len(ss) = 1 THEN ss[1]
  ELSE ss[1] \o sep \o Join(Tail(ss), sep)

Contains(s, c) == \E i \in 1..Len(s) : s[i] = c

\* repr of a str
ReprStr(s) ==
  With(IF Contains(s, "'") /\ ~Contains(s, "\"") THEN "\"" ELSE "'", LAMBDA q :
  With(replace(s, "\\", <<"\\", "\\">>), LAMBDA e1 :
  With(replace(e1, "\n", <<"\\", "n">>), LAMBDA e2 :
  With(replace(e2, "\r", <<"\\", "r">>), LAMBDA e3 :
  With(replace(e3, "\t", <<"\\", "t">>), LAMBDA e4 :
  With(IF q = "'" THEN replace(e4, "'", <<"\\", "'">>) ELSE e4, LAMBDA e5 :
    <<q>> \o e5 \o <<q>>))))))

\* the text of an object that has no __str__ of its own; the address in it
\* is left out
ObjectStr == <<"<", "o", "b", "j", "e", "c", "t", ">">>

RECURSIVE repr(_)
RECURSIVE ReprAll(_)
ReprAll(items) == IF items = <<>> THEN <<>> ELSE <<repr(Head(items))>> \o ReprAll(Tail(items))

repr(value) ==
  CASE value.t = "None" -> <<"N", "o", "n", "e">>
    [] value.t = "str" -> ReprStr(value.s)
    [] value.t = "int" -> IntStr(value.n)
    [] value.t = "bool" -> IF value.b THEN <<"T", "r", "u", "e">> ELSE <<"F", "a", "l", "s", "e">>
    [] value.t = "list" ->
         With(ReprAll(value.items), LAMBDA items :
           <<"[">> \o Join(items, <<",", " ">>) \o <<"]">>)
    [] value.t = "dict" ->
         With(SetToSeq(DOMAIN value.m), LAMBDA keys :
         With([i \in 1..Len(keys) |->
                 ReprStr(keys[i]) \o <<":", " ">> \o repr(value.m[keys[i]])], LAMBDA items :
           <<"{">> \o Join(items, <<",", " ">>) \o <<"}">>))
    [] OTHER -> ObjectStr

\* str(value)
str(value) == IF value.t = "str" THEN value.s ELSE repr(value)

\* whether json.dumps accepts the value
RECURSIVE JsonSerializable(_)
JsonSerializable(value) ==
  CASE value.t \in {"None", "str", "int", "bool"} -> TRUE
    [] value.t = "list" -> \A i \in 1..Len(value.items) : JsonSerializable(value.items[i])
    [] value.t = "dict" -> \A key \in DOMAIN value.m : JsonSerializable(value.m[key])
    [] OTHER -> FALSE

JsonStr(s) ==
  With(replace(s, "\\", <<"\\", "\\">>), LAMBDA e1 :
  With(replace(e1, "\"", <<"\\", "\"">>), LAMBDA e2 :
  With(replace(e2, "\n", <<"\\", "n">>), LAMBDA e3 :
  With(replace(e3, "\r", <<"\\", "r">>), LAMBDA e4 :
  With(replace(e4, "\t", <<"\\", "t">>), LAMBDA e5 :
    <<"\"">> \o e5 \o <<"\"">>)))))

\* json.dumps(value, separators=(',',':')) of a serializable value
RECURSIVE json_dumps(_)
RECURSIVE JsonAll(_)
JsonAll(items) == IF items = <<>> THEN <<>> ELSE <<json_dumps(Head(items))>> \o JsonAll(Tail(items))

json_dumps(value) ==
  CASE value.t = "None" -> <<"n", "u", "l", "l">>
    [] value.t = "str" -> JsonStr(value.s)
    [] value.t = "int" -> IntStr(value.n)
    [] value.t = "bool" -> IF value.b THEN <<"t", "r", "u", "e">> ELSE <<"f", "a", "l", "s", "e">>
    [] value.t = "list" ->
         With(JsonAll(value.items), LAMBDA items :
           <<"[">> \o Join(items, <<",">>) \o <<"]">>)
    [] OTHER ->
         With(SetToSeq(DOMAIN value.m), LAMBDA keys :
         With([i \in 1..Len(keys) |->
                 JsonStr(keys[i]) \o <<":">> \o json_dumps(value.m[keys[i]])], LAMBDA items :
           <<"{">> \o Join(items, <<",">>) \o <<"}">>))

(***************************************************************************)
(* _Contexts.  A render machine m holds                                    *)
(*   heap : the _Contexts._Node objects, a node being its index;           *)
(*   cs   : the live _Contexts objects, a stack (a partial's is on top);   *)
(*   rs   : the live _RenderState objects, a stack;                        *)
(*   kont : the Render calls in progress, innermost last;                  *)
(*   status, exc : "running", "done" or "raised" with the exception.       *)
(* An operation on contexts takes m and the index c of the _Contexts and   *)
(* returns the machine after it with the value returned or the exception.  *)
(***************************************************************************)
_Node(value) == [value |-> value, value_has_get |-> hasattr_get(value), found |-> <<>>]

Ret(m, val) == [m |-> m, val |-> val, err |-> NoExc]
Raised(m, e) == [m |-> m, val |-> None, err |-> e]

\* _Contexts(globals_), with the nodes allocated from index base + 1
_Contexts(globals, base) ==
  [nodes |-> [i \in 1..Len(globals) |-> base + i],
   first_local |-> Len(globals),
   value_info |-> <<>>]

\* a fork that copies the caller's whole stack
CreateFromAll(contexts) ==
  [nodes |-> contexts.nodes,
   first_local |-> contexts.first_local,
   value_info |-> <<>>]

CreateFromGlobals(contexts) ==
  [nodes |-> SubSeq(contexts.nodes, 1, contexts.first_local),
   first_local |-> contexts.first_local,
   value_info |-> <<>>]

\* a Push that puts the context under the local contexts, not on top
PushUnderLocals(m, c, context) ==
  [m EXCEPT !.heap = Append(@, _Node(context)),
            !.cs[c].nodes = SubSeq(@, 1, m.cs[c].first_local) \o <<Len(m.heap) + 1>>
                            \o SubSeq(@, m.cs[c].first_local + 1, Len(@))]

Push(m, c, context) ==
  [m EXCEPT !.heap = Append(@, _Node(context)),
            !.cs[c].nodes = Append(@, Len(m.heap) + 1)]

\* a Pop that leaves the found lists as they are
PopFoundNothing(m, c, keys) == Ret(m, None)

\* the loop over node.GetKeys() popping the found lists
RECURSIVE PopFound(_, _, _)
PopFound(m, c, keys) ==
  IF keys = <<>> THEN Ret(m, None)
  ELSE LET found_key == Head(keys)
           info == m.cs[c].value_info
       IN IF found_key \notin DOMAIN info THEN Raised(m, PyRaise("KeyError", "_value_info"))
          ELSE IF info[found_key].found = <<>>
               THEN Raised(m, PyRaise("IndexError", "pop from empty list"))
               ELSE PopFound(
                      [m EXCEPT !.cs[c].value_info[found_key].found = SubSeq(@, 1, Len(@) - 1)],
                      c, Tail(keys))

\* a Pop that leaves the stack as it is
PopNothing(m, c) == Ret(m, None)

Pop(m, c) ==
  LET nodes == m.cs[c].nodes
  IN IF nodes = <<>> THEN Raised(m, PyRaise("IndexError", "pop from empty list"))
     ELSE With([m EXCEPT !.cs[c].nodes = SubSeq(nodes, 1, Len(nodes) - 1)], LAMBDA m1 :
            IF Len(nodes) - 1 < m.cs[c].first_local
            THEN Raised(m1, PyRaise("AssertionError", "len(self._nodes) >= self._first_local"))
            ELSE PopFound(m1, c, SetToSeq(DOMAIN m.heap[nodes[Len(nodes)]].found)))

GetTopLocal(m, c) ==
  LET nodes == m.cs[c].nodes
  IN IF Len(nodes) = m.cs[c].first_local THEN None ELSE m.heap[nodes[Len(nodes)]].value

\* _Node.Get: the value returned
Get(node, key) ==
  IF ~node.value_has_get THEN None
  ELSE IF key \in DOMAIN node.found THEN node.found[key]
  ELSE get(node.value, key)

\* _Node.Get: the node afterwards
GetUpdate(node, key) ==
  With(Get(node, key), LAMBDA value :
    IF value # None /\ key \notin DOMAIN node.found
    THEN [node EXCEPT !.found = (key :> value) @@ @]
    ELSE node)

\* value[key] on the value of a node that answered get(key)
GetItem(value, key) ==
  IF value.t = "dict" THEN [val |-> value.m[key], err |-> NoExc]
  ELSE [val |-> None, err |-> PyRaise("TypeError", "object has no attribute '__getitem__'")]

_FindNodeValue(m, c, key) ==
  LET nodes == m.cs[c].nodes
      info == IF key \in DOMAIN m.cs[c].value_info THEN m.cs[c].value_info[key]
              ELSE [found |-> <<>>, checked |-> {}]
      \* the nodes from the top down to the first one already checked
      checked_at == {j \in 1..Len(nodes) : nodes[j] \in info.checked}
      HasKey(n) == Get(m.heap[n], key) # None
  IN
  With(IF checked_at = {} THEN 1
       ELSE 1 + CHOOSE j \in checked_at : \A j2 \in checked_at : j2 <= j, LAMBDA lo :
  With(info.found \o SelectSeq(SubSeq(nodes, lo, Len(nodes)), HasKey), LAMBDA found_node_list :
  With([m EXCEPT !.heap = [n \in 1..Len(m.heap) |->
                             IF \E j \in lo..Len(nodes) : nodes[j] = n
                             THEN GetUpdate(m.heap[n], key) ELSE m.heap[n]],
                 !.cs[c].value_info =
                    (key :> [found |-> found_node_list,
                             checked |-> info.checked \cup {nodes[j] : j \in lo..Len(nodes)}])
                    @@ @],
       LAMBDA m1 :
    IF found_node_list = <<>> THEN Ret(m1, None)
    ELSE With(GetItem(m.heap[found_node_list[Len(found_node_list)]].value, key), LAMBDA item :
           IF item.err.exc # "" THEN Raised(m1, item.err) ELSE Ret(m1, item.val)))))

\* the descent through the parts of the tail
RECURSIVE Descend(_, _)
Descend(found, parts) ==
  IF parts = <<>> THEN found
  ELSE IF ~hasattr_get(found) THEN None
  ELSE Descend(get(found, Head(parts)), Tail(parts))

Resolve(m, c, path) ==
  LET parts == split(path, ".")
      nodes == m.cs[c].nodes
  IN With(IF parts[1] = <<"@">>
          THEN (IF nodes = <<>>
                THEN Raised(m, PyRaise("IndexError", "list index out of range"))
                ELSE Ret(m, m.heap[nodes[Len(nodes)]].value))
          ELSE _FindNodeValue(m, c, parts[1]),
          LAMBDA found :
       IF found.err.exc # "" THEN found
       ELSE Ret(found.m, Descend(found.val, Tail(parts))))

(***************************************************************************)
(* _RenderState.  partial_info is <<>> for None, else one record holding   *)
(* the index in rs of the forking render state and the partial tag's id.   *)
(***************************************************************************)
_RenderState(name, contexts, partial_info) ==
  [text |-> <<>>, contexts |-> contexts, name |-> name, errors |-> <<>>,
   partial_info |-> partial_info]

\* the 'included as' lines of a resolution error
RECURSIVE IncludedAs(_, _)
IncludedAs(rs, partial_info) ==
  IF partial_info = <<>> THEN <<>>
  ELSE <<[kind |-> "included as", id |-> partial_info[1].id,
          in |-> rs[partial_info[1].render_state].name]>>
       \o IncludedAs(rs, rs[partial_info[1].render_state].partial_info)

\* AddResolutionError on the render state at the top of rs
AddResolutionError(m, id) ==
  LET r == Len(m.rs)
  IN [m EXCEPT !.rs[r].errors =
        @ \o <<[kind |-> "Failed to resolve", id |-> id, in |-> m.rs[r].name]>>
          \o IncludedAs(m.rs, m.rs[r].partial_info)]

\* a copy that forgets which partial tag the render state was forked for
CopyWithoutPartialInfo(m) ==
  LET top == m.rs[Len(m.rs)]
  IN [m EXCEPT !.rs = Append(@, _RenderState(top.name, top.contexts, <<>>))]

\* Copy of the render state at the top of rs, pushed on rs
Copy(m) ==
  LET top == m.rs[Len(m.rs)]
  IN [m EXCEPT !.rs = Append(@, _RenderState(top.name, top.contexts, top.partial_info))]

\* ForkPartial of the render state at the top of rs, pushed on rs with its
\* new _Contexts pushed on cs
ForkPartial(m, custom_name, id) ==
  LET top == m.rs[Len(m.rs)]
      name == IF custom_name # <<>> THEN custom_name ELSE id.name
  IN [m EXCEPT !.cs = Append(@, CreateFromGlobals(m.cs[top.contexts])),
               !.rs = Append(@, _RenderState(name, Len(m.cs) + 1,
                                             <<[render_state |-> Len(m.rs), id |-> id]>>))]

\* the text_transform arguments of Merge
NoNewLines(text) == replace(text, "\n", <<>>)
\* an indentation of the first line only
AddIndentationFirstLine(text, indent_str) == indent_str \o text \o <<"\n">>

AddIndentation(text, indent_str) == indent_str \o replace(text, "\n", <<"\n">> \o indent_str) \o <<"\n">>
StripLastNewLine(text) == IF endswith(text, <<"\n">>) THEN SubSeq(text, 1, Len(text) - 1) ELSE text

\* Merge of the render state at the top of rs into the one below it, given the
\* transformed text; the merged state is dropped
Merge(m, text) ==
  LET r == Len(m.rs)
  IN [m EXCEPT !.rs = [SubSeq(m.rs, 1, r - 1) EXCEPT
                         ![r - 1].errors = @ \o m.rs[r].errors,
                         ![r - 1].text = @ \o text]]

GetResult(render_state) == [text |-> render_state.text, errors |-> render_state.errors]

(***************************************************************************)
(* Render.  Each operator is the Render method of one node class, acting   *)
(* on the innermost call of m: the part before it renders a child when pc  *)
(* is "call", the part after the child returned when pc is "ret".          *)
(***************************************************************************)
Frame(node) == [node |-> node, pc |-> "call", i |-> 0, value |-> None]

Top(m) == m.kont[Len(m.kont)]
Contexts(m) == m.rs[Len(m.rs)].contexts

Return(m) == [m EXCEPT !.kont = SubSeq(@, 1, Len(@) - 1)]
Call(m, node) == [m EXCEPT !.kont = Append(@, Frame(node))]
At(m, pc, i, value) ==
  [m EXCEPT !.kont[Len(m.kont)] = [node |-> Top(m).node, pc |-> pc, i |-> i, value |-> value]]
Raise(m, e) == [m EXCEPT !.status = "raised", !.exc = e]
AppendText(m, string) == [m EXCEPT !.rs[Len(m.rs)].text = @ \o string]

_StringNode_Render(m) == Return(AppendText(m, Top(m).node.string))

\* the replacements in another order: & last
HtmlEscapeAmpLast(string) ==
  With(replace(string, "<", <<"&", "l", "t", ";">>), LAMBDA lt :
  With(replace(lt, ">", <<"&", "g", "t", ";">>), LAMBDA gt :
    replace(gt, "&", <<"&", "a", "m", "p", ";">>)))

HtmlEscape(string) ==
  With(replace(string, "&", <<"&", "a", "m", "p", ";">>), LAMBDA amp :
  With(replace(amp, "<", <<"&", "l", "t", ";">>), LAMBDA lt :
    replace(lt, ">", <<"&", "g", "t", ";">>)))

_EscapedVariableNode_Render(m) ==
  With(Resolve(m, Contexts(m), Top(m).node.id.name), LAMBDA r :
    IF r.err.exc # "" THEN Raise(r.m, r.err)
    ELSE IF r.val = None THEN Return(AddResolutionError(r.m, Top(m).node.id))
    ELSE With(str(r.val), LAMBDA string : Return(AppendText(r.m, HtmlEscape(string)))))

_UnescapedVariableNode_Render(m) ==
  With(Resolve(m, Contexts(m), Top(m).node.id.name), LAMBDA r :
    IF r.err.exc # "" THEN Raise(r.m, r.err)
    ELSE IF r.val = None THEN Return(AddResolutionError(r.m, Top(m).node.id))
    ELSE With(str(r.val), LAMBDA string : Return(AppendText(r.m, string))))

_CommentNode_Render(m) == Return(m)

_JsonNode_Render(m) ==
  With(Resolve(m, Contexts(m), Top(m).node.id.name), LAMBDA r :
    IF r.err.exc # "" THEN Raise(r.m, r.err)
    ELSE IF r.val = None THEN Return(AddResolutionError(r.m, Top(m).node.id))
    ELSE IF ~JsonSerializable(r.val)
         THEN Raise(r.m, PyRaise("TypeError", "is not JSON serializable"))
    ELSE Return(AppendText(r.m, json_dumps(r.val))))

_NodeCollection_Render(m) ==
  LET f == Top(m)
  IN IF f.i < Len(f.node.nodes)
     THEN Call(At(m, "ret", f.i + 1, None), f.node.nodes[f.i + 1])
     ELSE Return(m)

_BlockNode_Render(m) ==
  IF Top(m).pc = "call" THEN Call(At(m, "ret", 0, None), Top(m).node.content)
  ELSE Return(m)

_InlineNode_Render(m) ==
  IF Top(m).pc = "call" THEN Call(Copy(At(m, "ret", 0, None)), Top(m).node.content)
  ELSE Return(Merge(m, NoNewLines(m.rs[Len(m.rs)].text)))

_IndentedNode_Render(m) ==
  IF Top(m).pc = "call"
  THEN (IF Top(m).node.content.k = "_CommentNode" THEN Return(m)
        ELSE Call(Copy(At(m, "ret", 0, None)), Top(m).node.content))
  ELSE Return(Merge(m, AddIndentation(m.rs[Len(m.rs)].text, Top(m).node.indent_str)))

\* the loop taking the elements of the list from the last to the first
SectionLoopReversed(m, value, i) ==
  IF i < Len(value.items)
  THEN Call(Push(At(m, "ret", i + 1, value), Contexts(m), value.items[Len(value.items) - i]),
            Top(m).node.content)
  ELSE Return(m)

\* the next iteration of the loop over a list, or the end of it
SectionLoop(m, value, i) ==
  IF i < Len(value.items)
  THEN Call(Push(At(m, "ret", i + 1, value), Contexts(m), value.items[i + 1]),
            Top(m).node.content)
  ELSE Return(m)

_SectionNode_Render(m) ==
  LET f == Top(m)
  IN IF f.pc = "call"
     THEN With(Resolve(m, Contexts(m), f.node.id.name), LAMBDA r :
            IF r.err.exc # "" THEN Raise(r.m, r.err)
            ELSE IF r.val.t = "list" THEN SectionLoop(r.m, r.val, 0)
            ELSE IF hasattr_get(r.val)
                 THEN Call(Push(At(r.m, "ret", 0, r.val), Contexts(m), r.val), f.node.content)
            ELSE Return(AddResolutionError(r.m, f.node.id)))
     ELSE With(Pop(m, Contexts(m)), LAMBDA p :
            IF p.err.exc # "" THEN Raise(p.m, p.err)
            ELSE IF f.value.t = "list" THEN SectionLoop(p.m, f.value, f.i)
            ELSE Return(p.m))

\* the truth Python gives a value: 0 and the empty string are false
ShouldRenderAsPython(value) ==
  IF value = None THEN FALSE
  ELSE IF value.t = "bool" THEN value.b
  ELSE IF value.t = "list" THEN Len(value.items) > 0
  ELSE IF value.t = "int" THEN value.n # 0
  ELSE IF value.t = "str" THEN value.s # <<>>
  ELSE TRUE

ShouldRender(value) ==
  IF value = None THEN FALSE
  ELSE IF value.t = "bool" THEN value.b
  ELSE IF value.t = "list" THEN Len(value.items) > 0
  ELSE TRUE

_VertedSectionNode_Render(m) ==
  LET f == Top(m)
  IN IF f.pc = "call"
     THEN With(Resolve(m, Contexts(m), f.node.id.name), LAMBDA r :
            IF r.err.exc # "" THEN Raise(r.m, r.err)
            ELSE IF ShouldRender(r.val)
                 THEN Call(Push(At(r.m, "ret", 0, None), Contexts(m), r.val), f.node.content)
            ELSE Return(r.m))
     ELSE With(Pop(m, Contexts(m)), LAMBDA p :
            IF p.err.exc # "" THEN Raise(p.m, p.err) ELSE Return(p.m))

_InvertedSectionNode_Render(m) ==
  LET f == Top(m)
  IN IF f.pc = "call"
     THEN With(Resolve(m, Contexts(m), f.node.id.name), LAMBDA r :
            IF r.err.exc # "" THEN Raise(r.m, r.err)
            ELSE IF ~ShouldRender(r.val) THEN Call(At(r.m, "ret", 0, None), f.node.content)
            ELSE Return(r.m))
     ELSE Return(m)

\* the loop over self._args.items() building arg_context; c is the caller's
\* _Contexts
RECURSIVE ResolveArgs(_, _, _, _, _)
ResolveArgs(m, c, args, keys, arg_context) ==
  IF keys = <<>> THEN Ret(m, PyDict(arg_context))
  ELSE With(Resolve(m, c, args[Head(keys)].name), LAMBDA r :
         IF r.err.exc # "" THEN r
         ELSE ResolveArgs(r.m, c, args, Tail(keys),
                IF r.val # None THEN (Head(keys) :> r.val) @@ arg_context ELSE arg_context))

_PartialNode_Render(m) ==
  LET f == Top(m)
      c == Contexts(m)
  IN IF f.pc = "call"
     THEN
       With(Resolve(m, c, f.node.id.name), LAMBDA r :
         IF r.err.exc # "" THEN Raise(r.m, r.err)
         ELSE IF r.val = None THEN Return(AddResolutionError(r.m, f.node.id))
         ELSE IF r.val.t # "Handlebar" THEN Return(AddResolutionError(r.m, f.node.id))
         ELSE
         With(ForkPartial(At(r.m, "ret", 0, None), r.val.name, f.node.id), LAMBDA m1 :
         With(GetTopLocal(m1, c), LAMBDA top_local :
         With(IF top_local # None THEN Push(m1, Len(m1.cs), top_local) ELSE m1, LAMBDA m2 :
         With(IF f.node.args # <<>>
              THEN ResolveArgs(m2, c, f.node.args[1], SetToSeq(DOMAIN f.node.args[1]), <<>>)
              ELSE Ret(m2, None), LAMBDA a :
           IF a.err.exc # "" THEN Raise(a.m, a.err)
           ELSE
           With(IF f.node.args # <<>> THEN Push(a.m, Len(m1.cs), a.val) ELSE a.m, LAMBDA m3 :
           With(IF f.node.local_context_id # <<>>
                THEN Resolve(m3, c, f.node.local_context_id[1].name)
                ELSE Ret(m3, None), LAMBDA l :
             IF l.err.exc # "" THEN Raise(l.m, l.err)
             ELSE Call(IF l.val # None THEN Push(l.m, Len(m1.cs), l.val) ELSE l.m,
                       r.val.top_node))))))))
     ELSE With(Merge(m, StripLastNewLine(m.rs[Len(m.rs)].text)), LAMBDA merged :
            Return([merged EXCEPT !.cs = SubSeq(@, 1, Len(@) - 1)]))

\* node.Render(render_state) for the innermost call
Render(m) ==
  LET k == Top(m).node.k IN
  CASE k = "_StringNode" -> _StringNode_Render(m)
    [] k = "_EscapedVariableNode" -> _EscapedVariableNode_Render(m)
    [] k = "_UnescapedVariableNode" -> _UnescapedVariableNode_Render(m)
    [] k = "_CommentNode" -> _CommentNode_Render(m)
    [] k = "_JsonNode" -> _JsonNode_Render(m)
    [] k = "_PartialNode" -> _PartialNode_Render(m)
    [] k = "_NodeCollection" -> _NodeCollection_Render(m)
    [] k = "_BlockNode" -> _BlockNode_Render(m)
    [] k = "_InlineNode" -> _InlineNode_Render(m)
    [] k = "_IndentedNode" -> _IndentedNode_Render(m)
    [] k = "_SectionNode" -> _SectionNode_Render(m)
    [] k = "_VertedSectionNode" -> _VertedSectionNode_Render(m)
    [] k = "_InvertedSectionNode" -> _InvertedSectionNode_Render(m)

\* Handlebar.Render(*contexts) up to the call of the top node's Render
StartRender(template, contexts) ==
  [status |-> "running", exc |-> NoExc,
   heap |-> [i \in 1..Len(contexts) |-> _Node(contexts[i])],
   cs |-> <<_Contexts(contexts, 0)>>,
   rs |-> <<_RenderState(IF template.name # <<>> THEN template.name
                         ELSE <<"<", "r", "o", "o", "t", ">">>, 1, <<>>)>>,
   kont |-> <<Frame(template.top_node)>>]

(***************************************************************************)
(* Template sources and context values of the calls explored.              *)
(***************************************************************************)
Text(n) == _Token(n).text

\* {{name}}, {{{name}}}, {{*name}}, {{+name}}, {{#name}}, ...
Tag(open, name) ==
  Text(open) \o name
  \o (IF open = "OPEN_UNESCAPED_VARIABLE" THEN Text("CLOSE_MUSTACHE3") ELSE Text("CLOSE_MUSTACHE"))

\* {{#name}}body{{/end}}
Section(open, name, body, end) == Tag(open, name) \o body \o Tag("OPEN_END_SECTION", end)

\* {{?name}}body{{:else_name}}else_body{{/end}}
SectionElse(open, name, body, else_name, else_body, end) ==
  Tag(open, name) \o body \o Tag("OPEN_ELSE", else_name) \o else_body
  \o Tag("OPEN_END_SECTION", end)

StringsUpTo(alphabet, n) == UNION {[1..k -> alphabet] : k \in 0..n}

\* a call: the arguments of Handlebar(source, name) and of render(*contexts);
\* arg records what the family of calls varies
Input(family, source, contexts, arg) ==
  [family |-> family, source |-> source, name |-> <<>>, contexts |-> contexts, arg |-> arg]

\* Handlebar(source, name) for a source that compiles, as a context value
Partial(source, name) == Handlebar(source, name)

\* {{x}} and {{{x}}} rendered with x bound to a string
EscapingInputs ==
  {Input("escaping", Tag(open, <<"x">>), <<PyDict(<<"x">> :> PyStr(s))>>,
         [open |-> open, s |-> s]) :
     open \in {"OPEN_VARIABLE", "OPEN_UNESCAPED_VARIABLE"},
     s \in StringsUpTo({"<", ">", "&", "a"}, MaxStrLen) \cup {<<"<", "a", ">", "&", "b">>}}

\* ={{k}} rendered with several contexts, each defining k or not
PriorityInputs ==
  {Input("priority", <<"=">> \o Tag("OPEN_VARIABLE", <<"k">>), contexts, [key |-> <<"k">>]) :
     contexts \in UNION {[1..n -> {PyDict(<<>>), PyDict(<<"k">> :> PyInt(1)),
                                    PyDict(<<"k">> :> PyInt(2))}] : n \in 2..MaxContexts}}

\* the example of the module docstring: a context that only has get
GetterInputs ==
  {Input("getter",
         <<"h", "e", "l", "l", "o", " ">> \o Tag("OPEN_VARIABLE", <<"w", "o", "r", "l", "d">>),
         <<CustomContext(PyInt(10))>>, [expected |-> <<"h", "e", "l", "l", "o", " ", "1", "0">>])}

\* renders of every kind of value through every kind of leaf tag, and with
\* no context at all
ValueInputs ==
  {Input("values", <<"=">> \o Tag(open, name), contexts, [open |-> open]) :
     open \in {"OPEN_VARIABLE", "OPEN_UNESCAPED_VARIABLE", "OPEN_START_JSON", "OPEN_START_PARTIAL"},
     name \in {<<"v">>, <<"@">>, <<"v", ".", "w">>},
     contexts \in {<<>>} \cup
       {<<PyDict(<<"v">> :> v)>> :
          v \in {PyInt(5), PyStr(<<"a">>), PyBool(TRUE), PyList(<<PyInt(1)>>),
                 PyDict(<<"w">> :> PyInt(1)), CustomContext(PyInt(10)),
                 Partial(<<"x">>, <<>>)}}}

\* sections closed or continued by a tag that repeats a name
ClosingInputs ==
  {Input("closing", Section(open, <<"a">>, <<"x">>, end), <<PyDict(<<"a">> :> PyDict(<<>>))>>,
         [name |-> <<"a">>, end |-> end, else_name |-> <<>>]) :
     open \in {"OPEN_START_SECTION", "OPEN_START_VERTED_SECTION", "OPEN_START_INVERTED_SECTION"},
     end \in {<<>>, <<"a">>, <<"b">>}}
  \cup
  {Input("closing", SectionElse(open, <<"a">>, <<"x">>, else_name, <<"y">>, <<>>),
         <<PyDict(<<"a">> :> PyDict(<<>>))>>,
         [name |-> <<"a">>, end |-> <<>>, else_name |-> else_name]) :
     open \in {"OPEN_START_VERTED_SECTION", "OPEN_START_INVERTED_SECTION"},
     else_name \in {<<>>, <<"a">>, <<"b">>}}

\* tags naming every short identifier, valid or not
IdentifierInputs ==
  {Input("identifiers",
         IF open = "OPEN_START_SECTION" THEN Section(open, id, <<"x">>, <<>>) ELSE Tag(open, id),
         <<PyDict(<<"a">> :> PyInt(1))>>, [open |-> open, id |-> id]) :
     open \in {"OPEN_VARIABLE", "OPEN_UNESCAPED_VARIABLE", "OPEN_START_JSON",
               "OPEN_START_PARTIAL", "OPEN_START_SECTION"},
     id \in StringsUpTo({"a", ".", "@", "!"}, MaxIdLen)}

\* a partial tag with arguments inside a section: {{#s}}{{+p a:a}}{{/}}
ScopingInputs ==
  {Input("scoping",
         Section("OPEN_START_SECTION", <<"s">>, Tag("OPEN_START_PARTIAL", <<"p">> \o args), <<>>),
         <<PyDict(<<"s">> :> PyDict(<<"l", "o", "c">> :> PyInt(1))
                  @@ <<"a">> :> PyInt(2)
                  @@ <<"d">> :> PyDict(<<"z">> :> PyInt(3))
                  @@ <<"p">> :> Partial(Tag("OPEN_VARIABLE", <<"l", "o", "c">>), <<>>))>>,
         [args |-> args, local |-> <<"l", "o", "c">>]) :
     args \in {<<>>, <<" ", "a", ":", "a">>, <<" ", "@", ":", "d">>,
               <<" ", "a", ":", "a", " ", "@", ":", "d">>}}

\* {{#s}}{{+p k:a @:d}}{{/}} with p = {{k}}: the key k defined by the @ local
\* context d, by the named argument (a is defined), by the section's context
\* s and by the globals, each or not
ArgumentInputs ==
  {Input("arguments",
         Section("OPEN_START_SECTION", <<"s">>,
                 Tag("OPEN_START_PARTIAL", <<"p", " ", "k", ":", "a", " ", "@", ":", "d">>),
                 <<>>),
         <<PyDict(<<"s">> :> (IF def.top THEN PyDict(<<"k">> :> PyStr(<<"s">>)) ELSE PyDict(<<>>))
                  @@ <<"p">> :> Partial(Tag("OPEN_VARIABLE", <<"k">>), <<>>)
                  @@ (IF def.arg THEN <<"a">> :> PyStr(<<"a">>) ELSE <<>>)
                  @@ (IF def.local = "k" THEN <<"d">> :> PyDict(<<"k">> :> PyStr(<<"d">>))
                      ELSE IF def.local = "other" THEN <<"d">> :> PyDict(<<>>)
                      ELSE <<>>)
                  @@ (IF def.globals THEN <<"k">> :> PyStr(<<"g">>) ELSE <<>>))>>,
         def) :
     def \in [local : {"k", "other", "absent"}, arg : BOOLEAN, top : BOOLEAN,
              globals : BOOLEAN]}

\* {{#a}}{{#b}}{{+p}}{{/}}{{/}}: x is defined by the context of a only, y by
\* the context of b, the top local context, and z by the globals; p resolves
\* the three itself or through a second partial q, and the caller resolves
\* them again after the partial or not
IsolationVariables ==
  Tag("OPEN_VARIABLE", <<"x">>) \o Tag("OPEN_VARIABLE", <<"y">>) \o Tag("OPEN_VARIABLE", <<"z">>)

IsolationInputs ==
  {Input("isolation",
         Section("OPEN_START_SECTION", <<"a">>,
                 Section("OPEN_START_SECTION", <<"b">>,
                         Tag("OPEN_START_PARTIAL", <<"p">>)
                         \o (IF after THEN IsolationVariables ELSE <<>>),
                         <<>>),
                 <<>>),
         <<PyDict(<<"a">> :> PyDict(<<"x">> :> PyInt(1))
                  @@ <<"b">> :> PyDict(<<"y">> :> PyInt(2))
                  @@ <<"z">> :> PyInt(3)
                  @@ <<"p">> :> Partial(IF nested
                                        THEN Tag("OPEN_VARIABLE", <<"y">>)
                                             \o Tag("OPEN_START_PARTIAL", <<"q">>)
                                        ELSE IsolationVariables, <<>>)
                  @@ <<"q">> :> Partial(Tag("OPEN_VARIABLE", <<"x">>)
                                        \o Tag("OPEN_VARIABLE", <<"z">>), <<>>))>>,
         [nested |-> nested, after |-> after]) :
     nested \in BOOLEAN, after \in BOOLEAN}

\* sources in which the parser requires a token that the next token is not:
\* a tag left open or a section never closed, at the end of the input, and a
\* tag closed by the wrong token or interrupted by another tag
TokenInputs ==
  {Input("tokens", Text(open) \o <<"a">>, <<PyDict(<<>>)>>,
         [expected |-> IF open = "OPEN_UNESCAPED_VARIABLE" THEN "CLOSE_MUSTACHE3"
                       ELSE "CLOSE_MUSTACHE",
          actual |-> "None"]) :
     open \in {"OPEN_VARIABLE", "OPEN_UNESCAPED_VARIABLE", "OPEN_START_JSON",
               "OPEN_START_PARTIAL", "OPEN_START_SECTION"}}
  \cup
  {Input("tokens", Tag(open, <<"a">>) \o body, <<PyDict(<<>>)>>,
         [expected |-> "OPEN_END_SECTION", actual |-> "None"]) :
     open \in {"OPEN_START_SECTION", "OPEN_START_VERTED_SECTION",
               "OPEN_START_INVERTED_SECTION"},
     body \in {<<>>, <<"x">>}}
  \cup
  {Input("tokens", Text("OPEN_UNESCAPED_VARIABLE") \o <<"a">> \o Text("CLOSE_MUSTACHE"),
         <<PyDict(<<>>)>>, [expected |-> "CLOSE_MUSTACHE3", actual |-> "CLOSE_MUSTACHE"]),
   Input("tokens", Text("OPEN_VARIABLE") \o <<"a">> \o Text("CLOSE_MUSTACHE3"),
         <<PyDict(<<>>)>>, [expected |-> "CLOSE_MUSTACHE", actual |-> "CLOSE_MUSTACHE3"]),
   Input("tokens", Text("OPEN_VARIABLE") \o <<"a">> \o Tag("OPEN_VARIABLE", <<"b">>),
         <<PyDict(<<>>)>>, [expected |-> "CLOSE_MUSTACHE", actual |-> "OPEN_VARIABLE"]),
   Input("tokens", Section("OPEN_START_SECTION", <<"a">>, <<"x">>, <<>>) \o <<"}">>,
         <<PyDict(<<>>)>>, [expected |-> "CLOSE_MUSTACHE", actual |-> "CLOSE_MUSTACHE3"])}

IntLists == {PyList(items) : items \in UNION {[1..n -> {PyInt(1)}] : n \in 0..MaxItems}}

\* {{?v}}A{{:}}B{{/}} and {{^v}}B{{:}}A{{/}} for every kind of v
TruthinessInputs ==
  {Input("truthiness",
         IF open = "OPEN_START_VERTED_SECTION"
         THEN SectionElse(open, <<"v">>, <<"A">>, <<>>, <<"B">>, <<>>)
         ELSE SectionElse(open, <<"v">>, <<"B">>, <<>>, <<"A">>, <<>>),
         <<IF v = None THEN PyDict(<<>>) ELSE PyDict(<<"v">> :> v)>>, [v |-> v]) :
     open \in {"OPEN_START_VERTED_SECTION", "OPEN_START_INVERTED_SECTION"},
     v \in {None, PyBool(TRUE), PyBool(FALSE), PyInt(0), PyInt(5), PyStr(<<>>), PyStr(<<"x">>),
            PyDict(<<>>), PyDict(<<"v">> :> PyBool(FALSE))} \cup IntLists}

\* {{#items}}{{@}}-{{/}} for lists of truthy and falsy elements
IterationInputs ==
  {Input("iteration",
         Section("OPEN_START_SECTION", <<"i", "t", "e", "m", "s">>,
                 Tag("OPEN_VARIABLE", <<"@">>) \o <<"-">>, <<>>),
         <<PyDict(<<"i", "t", "e", "m", "s">> :> PyList(items))>>, [items |-> items]) :
     items \in UNION {[1..n -> {PyInt(0), PyInt(1), PyInt(2), PyBool(FALSE), PyStr(<<>>),
                                PyStr(<<"<">>)}] : n \in 0..MaxItems}
               \cup {<<PyInt(1), PyInt(2), PyInt(3)>>}}

\* the sources of templates with one or two nodes that fail to resolve
FailingSources ==
  {[source |-> Tag("OPEN_VARIABLE", <<"x">>), failed |-> <<<<"x">>>>],
   [source |-> <<"a">> \o Tag("OPEN_VARIABLE", <<"x">>), failed |-> <<<<"x">>>>],
   [source |-> Tag("OPEN_UNESCAPED_VARIABLE", <<"x">>), failed |-> <<<<"x">>>>],
   [source |-> Tag("OPEN_START_JSON", <<"x">>), failed |-> <<<<"x">>>>],
   [source |-> Section("OPEN_START_SECTION", <<"x">>, <<"y">>, <<>>), failed |-> <<<<"x">>>>],
   [source |-> Section("OPEN_START_SECTION", <<"n">>, <<"y">>, <<>>), failed |-> <<<<"n">>>>],
   [source |-> Tag("OPEN_START_PARTIAL", <<"x">>), failed |-> <<<<"x">>>>],
   [source |-> <<"a">> \o Tag("OPEN_START_PARTIAL", <<"n">>), failed |-> <<<<"n">>>>],
   [source |-> <<"a">> \o Tag("OPEN_VARIABLE", <<"x">>) \o Tag("OPEN_START_JSON", <<"y">>),
    failed |-> <<<<"x">>, <<"y">>>>]}

\* the name of the partial included at depth i
PartialKey(i) == <<"p">> \o IntStr(i)

\* the display name given to the partial at depth i, if it is given one
PartialName(i, named) == IF named THEN <<"P">> \o IntStr(i) ELSE <<>>

\* the context of a chain of partials p1 .. pd, each including the next, the
\* last one failing to resolve; n is bound to a value that is no template
RECURSIVE PartialChain(_, _, _, _, _)
PartialChain(i, depth, failing, inline, named) ==
  IF i > depth THEN <<"n">> :> PyInt(5)
  ELSE (PartialKey(i) :>
          Partial(IF i = depth THEN failing
                  ELSE (IF inline THEN <<"a">> ELSE <<>>)
                       \o Tag("OPEN_START_PARTIAL", PartialKey(i + 1)),
                  PartialName(i, named)))
       @@ PartialChain(i + 1, depth, failing, inline, named)

\* a node failing to resolve at every partial-inclusion depth
ErrorInputs ==
  {Input("errors",
         IF depth = 0 THEN f.source
         ELSE (IF inline THEN <<"a">> ELSE <<>>) \o Tag("OPEN_START_PARTIAL", PartialKey(1)),
         <<PyDict(PartialChain(1, depth, f.source, inline, named))>>,
         [depth |-> depth, failed |-> f.failed, named |-> named]) :
     depth \in 0..MaxDepth, f \in FailingSources, inline \in BOOLEAN, named \in BOOLEAN}

\* a leaf tag on a line of its own: after nothing, spaces or a line break and
\* before nothing or a line break; and the same tag as the whole body of a
\* section written on one line
IndentedValues ==
  {None, PyStr(<<"x", "\n", "y">>), PyStr(<<"<">>), Partial(<<"x", "\n", "y">>, <<>>),
   Partial(<<"x", "\n">>, <<>>)}

\* where the tag stands: between the texts prev and next, or enclosed
IndentedPlaces ==
  {[prev |-> prev, next |-> next, enclosed |-> FALSE] :
     prev \in {<<>>, <<" ", " ">>, <<"a", "\n", " ">>, <<"\n">>},
     next \in {<<>>, <<"\n">>, <<"\n", "n", "e", "x", "t">>}}
  \cup {[prev |-> <<>>, next |-> <<>>, enclosed |-> TRUE]}

IndentedInputs ==
  {Input("indented",
         IF place.enclosed
         THEN Section("OPEN_START_SECTION", <<"s">>, Tag(open, <<"v">>), <<>>)
         ELSE place.prev \o Tag(open, <<"v">>) \o place.next,
         IF value = None THEN <<PyDict(<<"s">> :> PyDict(<<>>))>>
         ELSE <<PyDict(<<"s">> :> PyDict(<<>>) @@ <<"v">> :> value)>>,
         [open |-> open, value |-> value, prev |-> place.prev, next |-> place.next,
          enclosed |-> place.enclosed]) :
     open \in {"OPEN_VARIABLE", "OPEN_UNESCAPED_VARIABLE", "OPEN_START_JSON",
               "OPEN_START_PARTIAL"},
     value \in IndentedValues,
     place \in IndentedPlaces}

\* a template including a partial whose body includes the same partial again,
\* directly or through a second partial
RecursionInputs ==
  {Input("recursion", prefix \o Tag("OPEN_START_PARTIAL", <<"p">>),
         <<PyDict(<<"p">> :> Partial(prefix \o Tag("OPEN_START_PARTIAL", next), <<>>)
                  @@ <<"q">> :> Partial(Tag("OPEN_START_PARTIAL", <<"p">>), <<>>))>>,
         [next |-> next]) :
     prefix \in {<<>>, <<"a">>}, next \in {<<"p">>, <<"q">>}}

Inputs ==
  EscapingInputs \cup PriorityInputs \cup GetterInputs \cup ValueInputs \cup ClosingInputs
  \cup IdentifierInputs \cup ScopingInputs \cup TruthinessInputs \cup IterationInputs
  \cup ErrorInputs \cup RecursionInputs \cup IndentedInputs \cup ArgumentInputs
  \cup IsolationInputs \cup TokenInputs

(***************************************************************************)
(* The program: a template is constructed from a source, then rendered     *)
(* with a list of contexts, one Render call of a node at a time.           *)
(***************************************************************************)
VARIABLES input, template, run, result

vars == <<input, template, run, result>>

Idle == [status |-> "idle", exc |-> NoExc, heap |-> <<>>, cs |-> <<>>, rs |-> <<>>,
         kont |-> <<>>]

NoResult == [text |-> <<>>, errors |-> <<>>]

Init ==
  /\ input \in Inputs
  /\ template = [t |-> "unset"]
  /\ run = Idle
  /\ result = NoResult

\* Handlebar(source, name)
Construct ==
  /\ template.t = "unset"
  /\ template' = Handlebar(input.source, input.name)
  /\ UNCHANGED <<input, run, result>>

\* template.render(*contexts), up to the first node
RenderCall ==
  /\ template.t = "Handlebar"
  /\ run.status = "idle"
  /\ run' = StartRender(template, input.contexts)
  /\ UNCHANGED <<input, template, result>>

\* one Render call of a node, or its continuation after a child returned; a
\* call nested deeper than the interpreter's recursion limit raises
\* RuntimeError instead
Step(m) ==
  IF Len(m.kont) > MaxRecursion
  THEN Raise(m, PyRaise("RuntimeError", "maximum recursion depth exceeded"))
  ELSE Render(m)

RenderStep ==
  /\ run.status = "running"
  /\ run.kont # <<>>
  /\ run' = Step(run)
  /\ UNCHANGED <<input, template, result>>

\* return render_state.GetResult()
RenderReturn ==
  /\ run.status = "running"
  /\ run.kont = <<>>
  /\ run' = [run EXCEPT !.status = "done"]
  /\ result' = GetResult(run.rs[1])
  /\ UNCHANGED <<input, template>>

Next == Construct \/ RenderCall \/ RenderStep \/ RenderReturn

Spec == Init /\ [][Next]_vars

\* the interpreter keeps running the call it has started
FairSpec == Spec /\ WF_vars(Next)

(***************************************************************************)
(* Properties.                                                             *)
(***************************************************************************)
Finished == run.status = "done"

\* one character of a string, HTML-escaped
EscapedChar(c) ==
  IF c = "&" THEN <<"&", "a", "m", "p", ";">>
  ELSE IF c = "<" THEN <<"&", "l", "t", ";">>
  ELSE IF c = ">" THEN <<"&", "g", "t", ";">>
  ELSE <<c>>

\* the text a variable tag is to give for the string s
ExpectedVariableText(open, s) ==
  IF open = "OPEN_VARIABLE" THEN Concat([i \in 1..Len(s) |-> EscapedChar(s[i])]) ELSE s

\* C1 as stated: the template {{x}} rendered with x bound to a string s gives
\* exactly s with &, < and > escaped, and {{{x}}} gives exactly s, with nothing
\* added before or after.
C1_ExactlyTheEscapedString ==
  (input.family = "escaping" /\ Finished)
    => result.text = ExpectedVariableText(input.arg.open, input.arg.s)

\* C1 amended: the template {{x}} rendered with x bound to a string s gives s
\* with &, < and > escaped followed by exactly one newline, and {{{x}}} gives
\* s followed by exactly one newline; no error is recorded.
C1_EscapedStringThenNewline ==
  (input.family = "escaping" /\ Finished)
    => /\ result.text = ExpectedVariableText(input.arg.open, input.arg.s) \o <<"\n">>
       /\ result.errors = <<>>

\* {{x}} has been rendered with x = '<a>&b'
C1_Witness ==
  /\ input.family = "escaping" /\ Finished
  /\ input.arg.open = "OPEN_VARIABLE"
  /\ input.arg.s = <<"<", "a", ">", "&", "b">>
  /\ result.text = <<"&", "l", "t", ";", "a", "&", "g", "t", ";", "&", "a", "m", "p", ";", "b", "\n">>


Raising == run.status = "raised"

Constructed == template.t # "unset"

\* the index of the earliest-listed context that defines key, 0 if none does
EarliestDefining(contexts, key) ==
  IF \E i \in 1..Len(contexts) : key \in DOMAIN contexts[i].m
  THEN CHOOSE i \in 1..Len(contexts) :
         /\ key \in DOMAIN contexts[i].m
         /\ \A j \in 1..(i - 1) : key \notin DOMAIN contexts[j].m
  ELSE 0

\* C2 as stated: when two or more of the contexts passed to render define the
\* same key, the key resolves to the value of the earliest-listed context that
\* defines it, so ={{k}} renders = followed by that value.
C2_EarliestContextWins ==
  (input.family = "priority" /\ Finished
   /\ EarliestDefining(input.contexts, input.arg.key) # 0)
    => result.text =
         <<"=">> \o IntStr(input.contexts[EarliestDefining(input.contexts, input.arg.key)]
                             .m[input.arg.key].n)

\* ={{k}} has been rendered with {'k': 1}, {'k': 2} and gave =2
C2_Witness ==
  /\ input.family = "priority" /\ Finished
  /\ input.contexts = <<PyDict(<<"k">> :> PyInt(1)), PyDict(<<"k">> :> PyInt(2))>>
  /\ result.text = <<"=", "2">>

\* C3 as stated: a context whose only capability is get(key) is usable, so
\* 'hello {{world}}' rendered with a context whose get always returns 10 does
\* not raise and yields 'hello 10'.
C3_GetOnlyContextRenders ==
  input.family = "getter"
    => /\ ~Raising
       /\ (Finished => result.text = input.arg.expected)

\* 'hello {{world}}' rendered with the get-only context has raised TypeError
C3_Witness ==
  /\ input.family = "getter" /\ Raising
  /\ run.exc.exc = "TypeError"
  /\ input.contexts = <<CustomContext(PyInt(10))>>

\* C4 as stated: no render-time condition is fatal; for every compiled
\* template and every list of context values render returns a result instead
\* of raising.
C4_RenderNeverRaises == template.t = "Handlebar" => ~Raising

\* ={{@}} has been rendered with no context at all and has raised IndexError
C4_Witness ==
  /\ input.family = "values" /\ Raising
  /\ input.contexts = <<>>
  /\ run.exc.exc = "IndexError"

\* whether the end tag or the else tag of the section repeats a name that is
\* not the name of the opening identifier
Mismatched(arg) ==
  \/ arg.end # <<>> /\ arg.end # arg.name
  \/ arg.else_name # <<>> /\ arg.else_name # arg.name

\* C5 as stated: compiling a section whose end tag or else tag carries a
\* non-empty name different from the opening identifier's name fails with a
\* ParseException that carries the source line; an empty name always matches
\* and the section compiles.
C5_MismatchIsParseException ==
  (input.family = "closing" /\ Constructed)
    => IF Mismatched(input.arg)
       THEN /\ template.t = "exception"
            /\ template.err.exc = "ParseException"
            /\ template.err.line >= 1
       ELSE template.t = "Handlebar"

\* {{#a}}x{{/b}} has been compiled and has raised ValueError
C5_Witness ==
  /\ input.family = "closing" /\ Constructed
  /\ input.source = Section("OPEN_START_SECTION", <<"a">>, <<"x">>, <<"b">>)
  /\ template.t = "exception"
  /\ template.err.exc = "ValueError"

\* a dot-separated part of an identifier that is @ or matches [A-Za-z0-9_\-/]+
ValidPart(part) ==
  \/ part = <<"@">>
  \/ /\ part # <<>>
     /\ \A i \in 1..Len(part) : part[i] \in Letters \cup DigitChars \cup {"_", "-", "/"}

\* the dot-separated parts of an identifier, from the i-th character on
RECURSIVE PartsFrom(_, _)
PartsFrom(id, i) ==
  IF \E j \in i..Len(id) : id[j] = "."
  THEN LET dot == CHOOSE j \in i..Len(id) : id[j] = "." /\ \A j2 \in i..(j - 1) : id[j2] # "."
       IN <<SubSeq(id, i, dot - 1)>> \o PartsFrom(id, dot + 1)
  ELSE <<SubSeq(id, i, Len(id))>>

InvalidIdentifier(id) ==
  id = <<>> \/ \E i \in 1..Len(PartsFrom(id, 1)) : ~ValidPart(PartsFrom(id, 1)[i])

\* C6 as stated: constructing a template in which a tag names an empty
\* identifier, or one with a part that is neither @ nor matches the pattern,
\* fails with a ParseException carrying a message and the 1-based source
\* line, and no template object is produced.
C6_InvalidIdentifierIsParseException ==
  (input.family = "identifiers" /\ Constructed /\ InvalidIdentifier(input.arg.id))
    => /\ template.t = "exception"
       /\ template.err.exc = "ParseException"
       /\ template.err.msg # <<>>
       /\ template.err.line >= 1

\* {{}} has been compiled and has raised TypeError
C6_Witness ==
  /\ input.family = "identifiers" /\ Constructed
  /\ input.arg.open = "OPEN_VARIABLE" /\ input.arg.id = <<>>
  /\ template.t = "exception"
  /\ template.err.exc = "TypeError"

\* whether the text has the character c
HasChar(text, c) == \E i \in 1..Len(text) : text[i] = c

\* C7 as stated: a partial tag that carries named arguments or an @
\* local-context identifier, rendered inside a section, does not get the
\* caller's top local context: a key defined only in the section's context and
\* not passed as an argument is absent inside the partial, so {{loc}} in the
\* partial fails to resolve and renders nothing.
C7_TopLocalNotForwarded ==
  (input.family = "scoping" /\ Finished /\ input.arg.args # <<>>)
    => /\ ~HasChar(result.text, "1")
       /\ \E i \in 1..Len(result.errors) :
            /\ result.errors[i].kind = "Failed to resolve"
            /\ result.errors[i].id.name = input.arg.local

\* {{#s}}{{+p a:a}}{{/}} has been rendered and the partial {{loc}} gave the
\* value 1 of the section's context, with no error
C7_Witness ==
  /\ input.family = "scoping" /\ Finished
  /\ input.arg.args = <<" ", "a", ":", "a">>
  /\ HasChar(result.text, "1")
  /\ result.errors = <<>>

\* the truth of a value as the claim states it
Truthy(v) ==
  CASE v = None -> FALSE
    [] v.t = "bool" -> v.b
    [] v.t = "list" -> Len(v.items) # 0
    [] OTHER -> TRUE

\* C8: {{?v}}A{{:}}B{{/}} and {{^v}}B{{:}}A{{/}} render exactly one of the two
\* branches for every value of v: A when v is true, a non-empty list or any
\* other non-absent non-boolean value (0 and the empty string included), B
\* when v is absent, false or an empty list.
C8_ExactlyOneBranch ==
  (input.family = "truthiness" /\ Finished)
    => /\ result.text = (IF Truthy(input.arg.v) THEN <<"A">> ELSE <<"B">>)
       /\ result.errors = <<>>

\* {{?v}}A{{:}}B{{/}} has been rendered with v = 0 and gave A
C8_Witness ==
  /\ input.family = "truthiness" /\ Finished
  /\ input.arg.v = PyInt(0)
  /\ input.source = SectionElse("OPEN_START_VERTED_SECTION", <<"v">>, <<"A">>, <<>>, <<"B">>, <<>>)
  /\ result.text = <<"A">>

\* the text of a list element as {{@}} is to show it
ElementText(v) ==
  CASE v.t = "int" -> IntStr(v.n)
    [] v.t = "bool" -> IF v.b THEN <<"T", "r", "u", "e">> ELSE <<"F", "a", "l", "s", "e">>
    [] v.t = "str" -> ExpectedVariableText("OPEN_VARIABLE", v.s)

\* C9: {{#items}}{{@}}-{{/}} with items a list of n elements renders the body
\* n times in element order, @ being element i in the i-th iteration, also
\* when the element is falsy; [1,2,3] gives 1-2-3-.
C9_BodyOncePerElementInOrder ==
  (input.family = "iteration" /\ Finished)
    => /\ result.text =
            Concat([i \in 1..Len(input.arg.items) |->
                      ElementText(input.arg.items[i]) \o <<"-">>])
       /\ result.errors = <<>>

\* {{#items}}{{@}}-{{/}} has been rendered with items = [1,2,3] and gave 1-2-3-
C9_Witness ==
  /\ input.family = "iteration" /\ Finished
  /\ input.arg.items = <<PyInt(1), PyInt(2), PyInt(3)>>
  /\ result.text = <<"1", "-", "2", "-", "3", "-">>

\* the name of the template rendering at partial-inclusion depth d
TemplateName(d, named) ==
  IF d = 0 THEN <<"<", "r", "o", "o", "t", ">">>
  ELSE IF named THEN PartialName(d, named) ELSE PartialKey(d)

\* the entries one failure at depth d is to append: the failure, then one
\* entry per enclosing partial frame, innermost first
RECURSIVE IncludedFrom(_, _)
IncludedFrom(d, named) ==
  IF d = 0 THEN <<>>
  ELSE <<[kind |-> "included as", name |-> PartialKey(d), in |-> TemplateName(d - 1, named)]>>
       \o IncludedFrom(d - 1, named)

ExpectedErrors(arg) ==
  Concat([i \in 1..Len(arg.failed) |->
            <<[kind |-> "Failed to resolve", name |-> arg.failed[i],
               in |-> TemplateName(arg.depth, arg.named)]>>
            \o IncludedFrom(arg.depth, arg.named)])

\* the errors of a result: what each entry says, without line and column
Entries(errors) ==
  [i \in 1..Len(errors) |->
     [kind |-> errors[i].kind, name |-> errors[i].id.name, in |-> errors[i].in]]

\* C10: every resolution failure at partial-inclusion depth d appends exactly
\* d+1 entries to the errors render returns: one 'Failed to resolve' entry
\* naming the template being rendered, then one 'included as' entry per
\* enclosing partial frame, innermost first; also inside an inline or indented
\* wrapper.
C10_ErrorsPerFailure ==
  (input.family = "errors" /\ Finished)
    => /\ Len(result.errors) = Len(input.arg.failed) * (input.arg.depth + 1)
       /\ Entries(result.errors) = ExpectedErrors(input.arg)

\* a node naming x has failed to resolve in a partial included from a
\* partial: the render returned three entries for it
C10_Witness ==
  /\ input.family = "errors" /\ Finished
  /\ input.arg.depth = 2 /\ input.arg.failed = <<<<"x">>>>
  /\ Len(result.errors) = 3
  /\ result.errors[1].kind = "Failed to resolve"
  /\ result.errors[2].kind = "included as" /\ result.errors[2].id.name = PartialKey(2)
  /\ result.errors[3].kind = "included as" /\ result.errors[3].id.name = PartialKey(1)

(***************************************************************************)
(* One context stack driven directly: any sequence of Push, Pop and        *)
(* Resolve calls on a _Contexts.  run holds the nodes and the stack,       *)
(* result what the last Resolve call returned.                             *)
(***************************************************************************)
MaxPushes == 2

StackKeys == {<<"k">>, <<"j">>}

\* the values pushed as contexts: mappings with and without the keys, and a
\* value that has no get
StackContexts ==
  {PyDict(<<>>), PyDict(<<"k">> :> PyInt(2)), PyDict(<<"j">> :> PyInt(3)), PyInt(5)}

StackInputs ==
  {Input("stack", <<>>, globals, [keys |-> StackKeys]) :
     globals \in {<<>>, <<PyDict(<<"k">> :> PyInt(1))>>,
                  <<PyDict(<<"j">> :> PyInt(3)), PyDict(<<>>)>>}}

\* _Contexts(globals_)
StackInit ==
  /\ input \in StackInputs
  /\ template = [t |-> "unset"]
  /\ run = [Idle EXCEPT !.status = "stack",
                        !.heap = [i \in 1..Len(input.contexts) |-> _Node(input.contexts[i])],
                        !.cs = <<_Contexts(input.contexts, 0)>>]
  /\ result = [key |-> <<>>, value |-> None]

\* contexts.Push(context)
StackPush ==
  /\ run.status = "stack"
  /\ Len(run.heap) < Len(input.contexts) + MaxPushes
  /\ \E context \in StackContexts : run' = Push(run, 1, context)
  /\ UNCHANGED <<input, template, result>>

\* contexts.Pop(), never below the globals
StackPop ==
  /\ run.status = "stack"
  /\ Len(run.cs[1].nodes) > run.cs[1].first_local
  /\ \E p \in {Pop(run, 1)} :
       run' = (IF p.err.exc # "" THEN Raise(p.m, p.err) ELSE p.m)
  /\ UNCHANGED <<input, template, result>>

\* contexts.Resolve(key)
StackResolve ==
  /\ run.status = "stack"
  /\ \E key \in StackKeys :
       \E r \in {Resolve(run, 1, key)} :
         /\ run' = (IF r.err.exc # "" THEN Raise(r.m, r.err) ELSE r.m)
         /\ result' = [key |-> key, value |-> r.val]
  /\ UNCHANGED <<input, template>>

StackNext == StackPush \/ StackPop \/ StackResolve

StackSpec == StackInit /\ [][StackNext]_vars

\* the uncached scan of the stack from the i-th entry down to the first entry
\* that is a mapping holding the key
RECURSIVE ScanFrom(_, _, _, _)
ScanFrom(heap, nodes, i, key) ==
  IF i = 0 THEN None
  ELSE IF heap[nodes[i]].value.t = "dict" /\ key \in DOMAIN heap[nodes[i]].value.m
       THEN heap[nodes[i]].value.m[key]
       ELSE ScanFrom(heap, nodes, i - 1, key)

Scan(m, c, key) == ScanFrom(m.heap, m.cs[c].nodes, Len(m.cs[c].nodes), key)

\* C11: after any sequence of Push, Pop (never below the globals) and Resolve
\* calls on one context stack, Resolve(key) returns what an uncached scan of
\* the current stack from the top down returns, absent if no entry holds the
\* key: a value found only in a popped entry is never returned, and no call
\* raises.
C11_ResolveIsUncachedScan ==
  /\ run.status = "stack"
  /\ \A key \in StackKeys :
       /\ Resolve(run, 1, key).err = NoExc
       /\ Resolve(run, 1, key).val = Scan(run, 1, key)

\* k was found in an entry that has since been popped, and the last Resolve
\* of k returned the value of the global below it
C11_Witness ==
  /\ run.status = "stack"
  /\ input.contexts = <<PyDict(<<"k">> :> PyInt(1))>>
  /\ \E n \in 1..Len(run.heap) :
       /\ \A i \in 1..Len(run.cs[1].nodes) : run.cs[1].nodes[i] # n
       /\ <<"k">> \in DOMAIN run.heap[n].found
       /\ run.heap[n].found[<<"k">>] = PyInt(2)
  /\ Len(run.cs[1].nodes) = 2
  /\ result = [key |-> <<"k">>, value |-> PyInt(1)]

\* C12 as stated: every render call runs to completion and returns, whatever
\* compiled templates the contexts make reachable as partial targets; here
\* for templates whose partials include each other.
C12_RenderReturns ==
  (input.family = "recursion" /\ run.status = "running") ~> Finished

\* a template whose partial includes itself has been rendered until the
\* nesting reached the recursion limit, and the render has raised
C12_Witness ==
  /\ input.family = "recursion" /\ input.arg.next = <<"p">>
  /\ Raising
  /\ run.exc.exc = "RuntimeError"
  /\ Len(run.kont) > MaxRecursion

\* the text a leaf tag is to give for the value its name resolves to
LeafText(open, value) ==
  IF value = None THEN <<>>
  ELSE IF open = "OPEN_START_PARTIAL"
       THEN (IF value.t = "Handlebar" THEN StripLastNewLine(value.source) ELSE <<>>)
  ELSE IF open = "OPEN_START_JSON" THEN json_dumps(value)
  ELSE ExpectedVariableText(open, str(value))

\* the indentation, the text with the indentation after each of its line
\* breaks, and one line break
IndentedText(text, indent) ==
  indent
  \o Concat([i \in 1..Len(text) |-> IF text[i] = "\n" THEN <<"\n">> \o indent ELSE <<text[i]>>])
  \o <<"\n">>

\* the render of: prev, a leaf tag alone on its line, next
ExpectedIndentedText(arg) ==
  LET last == _LastIndexOfSpaces(arg.prev)
  IN SubSeq(arg.prev, 1, last)
     \o IndentedText(LeafText(arg.open, arg.value), Spaces(Len(arg.prev) - last))
     \o (IF startswith(arg.next, <<"\n">>) THEN Tail(arg.next) ELSE arg.next)

\* the Render of an indented variable, JSON or partial tag is about to merge
\* the text of its tag
IndentedLeafReturns ==
  /\ run.status = "running"
  /\ run.kont # <<>>
  /\ Len(run.kont) <= MaxRecursion
  /\ Top(run).node.k = "_IndentedNode"
  /\ Top(run).pc = "ret"
  /\ Top(run).node.content.k \in {"_EscapedVariableNode", "_UnescapedVariableNode",
                                  "_JsonNode", "_PartialNode"}

\* C13: a single-line variable, JSON or partial tag whose previous sibling is
\* missing or ends with a line of spaces only, and whose next sibling is
\* missing or starts with a line break, renders as the captured indentation,
\* the tag's text with the indentation after every line break in it, and
\* exactly one line break: such a tag between top-level texts gives exactly
\* that between the trimmed texts, and wherever an indented tag returns, that
\* is what it adds to the text of the render state it was called with.
C13_IndentedLeaf ==
  /\ [](input.family = "indented" /\ ~input.arg.enclosed /\ Finished
          => result.text = ExpectedIndentedText(input.arg))
  /\ [][IndentedLeafReturns
          => run'.rs[Len(run.rs) - 1].text
               = run.rs[Len(run.rs) - 1].text
                 \o IndentedText(run.rs[Len(run.rs)].text, Top(run).node.indent_str)]_vars

\* '  {{+v}}' and 'next' on the line after it, with v a partial of the two
\* lines x and y, has rendered as the lines '  x' and '  y' and then 'next'
C13_Witness ==
  /\ input.family = "indented" /\ Finished
  /\ input.source = <<" ", " ">> \o Tag("OPEN_START_PARTIAL", <<"v">>) \o <<"\n", "n", "e", "x", "t">>
  /\ input.arg.value = Partial(<<"x", "\n", "y">>, <<>>)
  /\ result.text = <<" ", " ", "x", "\n", " ", " ", "y", "\n", "n", "e", "x", "t">>

(***************************************************************************)
(* Two render calls on one compiled template, their Render calls taken in  *)
(* any order.  run and result hold one machine and one result per call.    *)
(***************************************************************************)
Calls == 1..2

ConcContexts ==
  {<<>>,
   <<PyDict(<<"s">> :> PyList(<<PyInt(1), PyInt(2)>>) @@ <<"v">> :> PyInt(1)
            @@ <<"p">> :> Partial(Tag("OPEN_VARIABLE", <<"v">>) \o <<"x">>, <<>>))>>,
   <<PyDict(<<"s">> :> PyDict(<<"v">> :> PyStr(<<"<">>)) @@ <<"p">> :> Partial(<<"y">>, <<>>))>>}

ConcSources ==
  {Section("OPEN_START_SECTION", <<"s">>, Tag("OPEN_VARIABLE", <<"v">>), <<>>),
   Tag("OPEN_START_PARTIAL", <<"p">>) \o <<"\n">> \o Tag("OPEN_VARIABLE", <<"v">>),
   Section("OPEN_START_SECTION", <<"s">>, Tag("OPEN_START_PARTIAL", <<"p">>), <<>>) \o <<"=">>}

\* template.render(*contexts[1]) and template.render(*contexts[2])
ConcInputs ==
  {Input("concurrent", source, contexts, <<>>) :
     source \in ConcSources, contexts \in [Calls -> ConcContexts]}

ConcInit ==
  /\ input \in ConcInputs
  /\ template = [t |-> "unset"]
  /\ run = [i \in Calls |-> Idle]
  /\ result = [i \in Calls |-> NoResult]

\* both calls working on the render state and the context stack of one call
SharedState(runs, i, m) == [j \in Calls |-> m]

\* the render state and the context stack a call constructs are its own
OwnState(runs, i, m) == [runs EXCEPT ![i] = m]

ConcCall(i) ==
  /\ template.t = "Handlebar"
  /\ run[i].status = "idle"
  /\ run' = OwnState(run, i, StartRender(template, input.contexts[i]))
  /\ UNCHANGED <<input, template, result>>

ConcStep(i) ==
  /\ run[i].status = "running"
  /\ run[i].kont # <<>>
  /\ run' = OwnState(run, i, Step(run[i]))
  /\ UNCHANGED <<input, template, result>>

ConcReturn(i) ==
  /\ run[i].status = "running"
  /\ run[i].kont = <<>>
  /\ run' = OwnState(run, i, [run[i] EXCEPT !.status = "done"])
  /\ result' = [result EXCEPT ![i] = GetResult(run[i].rs[1])]
  /\ UNCHANGED <<input, template>>

ConcNext ==
  \/ Construct
  \/ \E i \in Calls : ConcCall(i)
  \/ \E i \in Calls : ConcStep(i)
  \/ \E i \in Calls : ConcReturn(i)

ConcSpec == ConcInit /\ [][ConcNext]_vars

\* a render call run alone from the machine m to its end
RECURSIVE RunToEnd(_)
RunToEnd(m) ==
  IF m.status # "running" THEN m
  ELSE IF m.kont = <<>> THEN [m EXCEPT !.status = "done"]
  ELSE With(Step(m), LAMBDA next : RunToEnd(next))

\* what a call gives its caller: the result returned or the exception raised
Outcome(m, returned) ==
  IF m.status = "done" THEN [status |-> "done", exc |-> NoExc, result |-> returned]
  ELSE [status |-> m.status, exc |-> m.exc, result |-> NoResult]

\* the outcome of the render call i run alone
Sequential(i) ==
  With(RunToEnd(StartRender(template, input.contexts[i])), LAMBDA m :
    Outcome(m, IF m.status = "done" THEN GetResult(m.rs[1]) ELSE NoResult))

BothEnded == \A i \in Calls : run[i].status \in {"done", "raised"}

RECURSIVE RunUntilReturn(_, _)
RunUntilReturn(m, depth) ==
  IF m.status # "running" \/ Len(m.kont) < depth THEN m
  ELSE With(Step(m), LAMBDA next : RunUntilReturn(next, depth))

\* the entries of every live context stack, in order: the nodes and the
\* context values they hold
StackEntries(m) ==
  [c \in 1..Len(m.cs) |->
     [nodes |-> m.cs[c].nodes,
      values |-> [j \in 1..Len(m.cs[c].nodes) |-> m.heap[m.cs[c].nodes[j]].value]]]

\* the Render of a node has just been entered
RenderEntered ==
  /\ run.status = "running"
  /\ run.kont # <<>>
  /\ Top(run).pc = "call"

\* C15: at every point of a render every context stack holds at least the
\* global entries the render call was given, unchanged and in order, and the
\* assertion in Pop never fails; and when the Render of a node that has been
\* entered returns, every stack holds exactly the entries, in the order, it
\* held when the Render was entered.
C15_StackDiscipline ==
  /\ \A c \in 1..Len(run.cs) :
       /\ run.cs[c].first_local = Len(input.contexts)
       /\ Len(run.cs[c].nodes) >= run.cs[c].first_local
       /\ \A j \in 1..Len(input.contexts) :
            run.heap[run.cs[c].nodes[j]].value = input.contexts[j]
  /\ ~(Raising /\ run.exc.exc = "AssertionError")
  /\ RenderEntered
       => With(RunUntilReturn(run, Len(run.kont)), LAMBDA returned :
            returned.status = "running" => StackEntries(returned) = StackEntries(run))

\* the Render of a section over a list of two elements has been entered; by
\* its return it has pushed two contexts and popped them
C15_Witness ==
  /\ input.family = "iteration" /\ Len(input.arg.items) = 2
  /\ RenderEntered
  /\ Top(run).node.k = "_SectionNode"
  /\ With(RunUntilReturn(run, Len(run.kont)), LAMBDA returned :
       /\ returned.status = "running"
       /\ Len(returned.heap) = Len(run.heap) + 2
       /\ StackEntries(returned) = StackEntries(run))

\* the text {{k}} is to give inside the partial: the value of the first
\* source, in order of priority, that defines k
ExpectedArgumentText(def) ==
  IF def.local = "k" THEN <<"d">>
  ELSE IF def.arg THEN <<"a">>
  ELSE IF def.top THEN <<"s">>
  ELSE IF def.globals THEN <<"g">>
  ELSE <<>>

\* C16: inside a partial body a key defined by more than one source resolves
\* to the @ local context's value first, then to the named argument's, then
\* to the caller's forwarded top local context's, then to the globals'; a
\* named argument whose identifier is absent in the caller's stack is left
\* out of the mapping and no error names it: the only error possible is the
\* partial's own failure to resolve the key when no source defines it.
C16_PartialPriority ==
  (input.family = "arguments" /\ Finished)
    => /\ result.text = ExpectedArgumentText(input.arg)
       /\ \A e \in 1..Len(result.errors) : result.errors[e].id.name # <<"a">>
       /\ (result.errors = <<>>)
            <=> (input.arg.local = "k" \/ input.arg.arg \/ input.arg.top \/ input.arg.globals)

\* only the section's context and the globals define k, the named argument
\* is absent, and the render gave the section's value with no error
C16_Witness ==
  /\ input.family = "arguments" /\ Finished
  /\ input.arg = [local |-> "other", arg |-> FALSE, top |-> TRUE, globals |-> TRUE]
  /\ result.text = <<"s">>
  /\ result.errors = <<>>

\* what the keys x, y and z and @ resolve to on the stack c of m
Resolutions(m, c) ==
  [key \in {<<"x">>, <<"y">>, <<"z">>, <<"@">>} |->
     With(Resolve(m, c, key), LAMBDA r : [val |-> r.val, err |-> r.err])]

\* C17: the stack a partial is forked with starts with exactly the caller's
\* global entries, so a key defined only by a caller-local context below the
\* caller's top local context is absent inside the partial (x fails to
\* resolve there, y and z resolve, and the caller resolves all three after
\* the partial returned); the local entries of two stacks are never the same
\* nodes; and no step of a render changes the entries, the length or what a
\* key resolves to on any stack below the one the step works on.
C17_ForkIsolation ==
  /\ [](input.family = "isolation" /\ Finished
          => /\ result.text = <<"2", "3">> \o (IF input.arg.after THEN <<"1", "2", "3">> ELSE <<>>)
             /\ {result.errors[e].id.name :
                   e \in {e \in 1..Len(result.errors) :
                            result.errors[e].kind = "Failed to resolve"}} = {<<"x">>})
  /\ [](\A c \in 2..Len(run.cs) :
          /\ SubSeq(run.cs[c].nodes, 1, run.cs[c].first_local)
               = SubSeq(run.cs[c - 1].nodes, 1, run.cs[c - 1].first_local)
          /\ \A j \in (run.cs[c].first_local + 1)..Len(run.cs[c].nodes) :
               \A b \in 1..(c - 1) :
                 \A i \in 1..Len(run.cs[b].nodes) : run.cs[c].nodes[j] # run.cs[b].nodes[i])
  /\ [][\A c \in 1..(Len(run.cs) - 1) :
          /\ Len(run'.cs) >= c
          /\ StackEntries(run')[c] = StackEntries(run)[c]
          /\ Resolutions(run', c) = Resolutions(run, c)]_vars

\* inside the partial p, called in the section b inside the section a, x has
\* failed to resolve while the caller's stack holds the contexts of a and b
C17_Witness ==
  /\ input.family = "isolation" /\ ~input.arg.nested
  /\ run.status = "running"
  /\ Len(run.cs) = 2
  /\ Len(run.cs[1].nodes) = 3
  /\ Len(run.cs[2].nodes) = 2
  /\ \E e \in 1..Len(run.rs[Len(run.rs)].errors) :
       run.rs[Len(run.rs)].errors[e].id.name = <<"x">>
  /\ Resolutions(run, 1)[<<"x">>].val = PyInt(1)
  /\ Resolutions(run, 2)[<<"x">>].val = None

\* C18 as stated: whenever the parser requires a token of one kind and the
\* current token is not of that kind, the end of the input included (a tag
\* left open such as {{a, a section never closed such as {{#a}}x), the
\* compilation fails with a ParseException that cites the expected kind, the
\* actual kind where there is a token, and the line; it fails with no other
\* kind of error and returns no template.
C18_WrongTokenIsParseException ==
  (input.family = "tokens" /\ Constructed)
    => /\ template.t = "exception"
       /\ template.err.exc = "ParseException"
       /\ Len(template.err.msg) = 4
       /\ template.err.msg[1] = "Expecting token"
       /\ template.err.msg[2] = input.arg.expected
       /\ input.arg.actual # "None" => template.err.msg[4] = input.arg.actual
       /\ template.err.line >= 1

\* {{a has been compiled and has raised AttributeError
C18_Witness ==
  /\ input.family = "tokens" /\ Constructed
  /\ input.source = Text("OPEN_VARIABLE") \o <<"a">>
  /\ template.t = "exception"
  /\ template.err.exc = "AttributeError"
=============================================================================
